---- MODULE Spec2Model ----
(***************************************************************************)
(* Model of the coidemo repository.                                        *)
(*                                                                         *)
(*  - the FHIR facade: the `resources` table (FHIRStore), the bearer-token *)
(*    verifier (verifyAuthorization) and the /fhir request handlers;       *)
(*  - the disclosure portal store (DB): saveDraft / submitDraft on the     *)
(*    `disclosures` table.                                                 *)
(*                                                                         *)
(* A JavaScript object is modelled by the values found at a fixed set of   *)
(* JSON paths (what json_extract(json, '$.path') yields); a missing key is *)
(* Undef, as a property read of a missing key is in JavaScript.  JSON text *)
(* is the set of (path, value) pairs of the keys that are present.         *)
(***************************************************************************)
EXTENDS Integers, Sequences, FiniteSets, TLC

(***************************************************************************)
(* Bounds                                                                  *)
(***************************************************************************)
\* number of distinct resource ids that occur (in URLs, bodies, randomUUID)
MaxIds == 2
\* number of portal users (one disclosure record each)
MaxUsers == 2
\* number of clock values (timestamps 1..MaxTime)
MaxTime == 2
\* number of snapshot ids randomId may produce
MaxSnapshots == 2
\* number of rows in the resources table a search reads
MaxRows == 3
\* concurrent verifyAuthorization calls
MaxCalls == 2
\* discovery fetches
MaxFetches == 2
\* session ids the portal server issues
MaxSessions == 2
\* authorization codes the issuer hands out
MaxCodes == 2
\* the QuestionnaireResponse ids the FHIR store hands out
MaxResponses == 3
\* the saveDraft calls of the form store that overlap
MaxSaves == 2
\* the readings of the browser clock that stamp a payload
MaxAuthored == 4

(***************************************************************************)
(* JavaScript values and JSON                                              *)
(***************************************************************************)
Undef == "undefined"
EmptyStr == ""
Obj == "{}"

Paths ==
  {"resourceType", "id", "subject", "subject.identifier",
   "subject.identifier.system", "subject.identifier.value", "subject.display",
   "questionnaire", "status", "url", "version", "authored"}

Falsy(v) == v \in {Undef, EmptyStr}

IsObject(v) == v = Obj

EmptyObj == [p \in Paths |-> Undef]

\* JSON.stringify: keys whose value is undefined are omitted from the text
JSONstringify(obj) == {<<p, obj[p]>> : p \in {q \in Paths : obj[q] # Undef}}

\* JSON.parse: a key that is not in the text reads as undefined
JSONparse(json) ==
  [p \in Paths |->
     IF \E kv \in json : kv[1] = p
       THEN (CHOOSE kv \in json : kv[1] = p)[2]
       ELSE Undef]

(***************************************************************************)
(* src/unnamed/part_005: the canonical questionnaire                       *)
(***************************************************************************)
COI_CANONICAL_URL == "https://example.org/hl7-coi/Questionnaire/coi"
COI_VERSION == "2025.09.0"

canonicalQuestionnaire ==
  [EmptyObj EXCEPT !["resourceType"] = "Questionnaire",
                   !["status"] = "active",
                   !["url"] = COI_CANONICAL_URL,
                   !["version"] = COI_VERSION]

(***************************************************************************)
(* Requests                                                                *)
(***************************************************************************)
Ids == {"r" \o ToString(i) : i \in 1..MaxIds}

allowedResourceTypes == {"Questionnaire", "QuestionnaireResponse"}

PathTypes == allowedResourceTypes \cup {"Patient"}

\* Access tokens: `decodes` - base64url JSON object (decodeMockToken succeeds);
\* `verifies` - jwtVerify accepts signature, issuer and audience.
NoToken == [decodes |-> FALSE, verifies |-> FALSE, sub |-> Undef, iss |-> Undef, name |-> Undef]
Tokens ==
  { [decodes |-> FALSE, verifies |-> FALSE, sub |-> Undef, iss |-> Undef, name |-> Undef],
    [decodes |-> TRUE, verifies |-> TRUE, sub |-> "alice", iss |-> Undef, name |-> "Alice"],
    [decodes |-> TRUE, verifies |-> TRUE, sub |-> "bob", iss |-> "https://idp", name |-> Undef],
    [decodes |-> TRUE, verifies |-> TRUE, sub |-> Undef, iss |-> Undef, name |-> Undef] }

\* Authorization header: absent, another scheme, or "Bearer <token>"
Headers ==
  { [scheme |-> "none", token |-> NoToken] }
    \cup { [scheme |-> "Basic", token |-> t] : t \in {x \in Tokens : x.sub = "alice"} }
    \cup { [scheme |-> "Bearer", token |-> t] : t \in Tokens }

\* Subjects a client may put into a body
ForeignSubject ==
  [EmptyObj EXCEPT !["subject"] = Obj, !["subject.identifier"] = Obj,
                   !["subject.identifier.system"] = "urn:evil",
                   !["subject.identifier.value"] = "bob",
                   !["subject.display"] = "Eve"]

BodySubjects ==
  { EmptyObj,
    [EmptyObj EXCEPT !["subject"] = "Practitioner/1"],
    [EmptyObj EXCEPT !["subject"] = Obj, !["subject.identifier"] = "x"],
    ForeignSubject }

\* JSON objects a client may send: responses with each subject, with and
\* without an id, and with the required fields missing; questionnaires
ResponseBodies ==
  { [s EXCEPT !["resourceType"] = "QuestionnaireResponse",
              !["questionnaire"] = COI_CANONICAL_URL, !["status"] = "in-progress"] :
      s \in BodySubjects \ {ForeignSubject} }
  \cup
  { [ForeignSubject EXCEPT !["resourceType"] = "QuestionnaireResponse", !["id"] = i,
                           !["questionnaire"] = COI_CANONICAL_URL, !["status"] = "completed"] :
      i \in {Undef, EmptyStr} \cup Ids }
  \cup
  { [EmptyObj EXCEPT !["resourceType"] = "QuestionnaireResponse",
                     !["questionnaire"] = qs[1], !["status"] = qs[2]] :
      qs \in {<<Undef, "completed">>, <<COI_CANONICAL_URL, Undef>>, <<EmptyStr, EmptyStr>>} }

QuestionnaireBodies ==
  { [EmptyObj EXCEPT !["resourceType"] = "Questionnaire", !["id"] = i, !["status"] = "draft"] :
      i \in {Undef} \cup Ids }
  \cup
  { [EmptyObj EXCEPT !["resourceType"] = "Questionnaire",
                     !["url"] = COI_CANONICAL_URL, !["version"] = COI_VERSION] }

BodyObjects == ResponseBodies \cup QuestionnaireBodies \cup {EmptyObj}

\* Request bodies: text that is not JSON, JSON null, a JSON scalar, a JSON array, a JSON object
Bodies ==
  { [kind |-> k, obj |-> EmptyObj] : k \in {"malformed", "null", "scalar", "array"} }
    \cup { [kind |-> "object", obj |-> o] : o \in BodyObjects }

NoBody == [kind |-> "null", obj |-> EmptyObj]
NoJson == {}

VARIABLES
  allowMock,        \* auth.ts: MOCK_AUTH === 'true'
  remoteJwks,       \* auth.ts: the cached key set (TRUE when set)
  jwksInitPromise,  \* auth.ts: "null", "resolved" or "rejected"
  resources,        \* schema.sql: table resources, id -> json
  req,              \* the request handled last
  resp,             \* the response to it
  disclosures,      \* db.ts (DB): table disclosures, id -> row
  now,              \* the clock nowISO reads
  call,             \* the DB call in progress
  ret,              \* what it returns
  lastSaved,        \* per record, the document of the latest saveDraft call,
                    \* and whether a submit has appended a snapshot since
  perIssuer,        \* auth.ts: TRUE for the variant with the per-issuer caches
  verifying,        \* auth.ts: the verifyAuthorization calls in progress
  fetches,          \* the discovery fetches begun so far
  reachable,        \* whether the issuer answers the discovery request
  sessions,         \* db.ts (DB): table sessions, session_id -> row
  loggedOut,        \* the session ids /auth/logout has deleted
  served,           \* server.ts: the portal request served last and its answer
  storage,          \* part_001: sessionStorage (PKCE state, processed code, tokens)
  query,            \* part_001: the code and state of window.location.search
  redirecting,      \* part_001: the handleRedirect calls in progress
  tokenEndpoint,    \* part_006: the codes the token endpoint accepts or has redeemed
  form,             \* main.tsx: financialInterestsStore (responseId, autoSave, status)
  saving,           \* main.tsx: the saveDraft calls in progress
  submitting,       \* main.tsx: the submit call in progress, refreshHistory included
  responses,        \* part_009: the QuestionnaireResponse resources, id -> status, authored
  clock             \* the clock new Date() reads in the browser

fhirVars == <<allowMock, remoteJwks, jwksInitPromise, resources, req, resp>>
portalVars == <<disclosures, now, call, ret, lastSaved>>
authVars == <<perIssuer, verifying, fetches, reachable>>
sessionVars == <<sessions, loggedOut, served>>
redirectVars == <<storage, query, redirecting, tokenEndpoint>>
formVars == <<form, saving, submitting, responses, clock>>
restVars == <<authVars, sessionVars, redirectVars, formVars>>
\* the state the overlapping verifyAuthorization calls leave alone
nonAuthVars == <<portalVars, sessionVars, redirectVars, formVars>>
\* the state the portal session routes leave alone
nonSessionVars == <<fhirVars, authVars, disclosures, call, ret, lastSaved, redirectVars, formVars>>
vars == <<allowMock, remoteJwks, jwksInitPromise, resources, req, resp,
          disclosures, now, call, ret, lastSaved, restVars>>


(***************************************************************************)
(* src/src/auth.ts (first variant, lines 1-129): bearer verification       *)
(***************************************************************************)
\* OIDC_ISSUER of the deployment (auth.ts:17)
issuer == "https://idp"

\* outcome of the discovery fetch in discoverJwksUri
DiscoveryOutcomes == {"ok", "fail"}

\* a variant of parseBearer that takes the credential of any scheme
parseBearer_AnyScheme(header) ==
  [null |-> header.scheme = "none", token |-> header.token]

\* parseBearer: the token of a "Bearer <token>" header, else null
parseBearer(header) ==
  IF header.scheme = "Bearer"
    THEN [null |-> FALSE, token |-> header.token]
    ELSE [null |-> TRUE, token |-> NoToken]

stringifyDisplay(payload) == payload.name

NoAuth == [subjectSystem |-> Undef, subjectValue |-> Undef, display |-> Undef]

\* resolveJwks: the cached key set, else the cached promise, else a new
\* resolution whose discovery fetch has outcome d.
resolveJwks(cached, promise, d) ==
  IF cached THEN [ok |-> TRUE, remoteJwks |-> cached, jwksInitPromise |-> promise]
  ELSE IF promise # "null"
    THEN [ok |-> promise = "resolved", remoteJwks |-> cached, jwksInitPromise |-> promise]
  ELSE IF d = "ok"
    THEN [ok |-> TRUE, remoteJwks |-> TRUE, jwksInitPromise |-> "resolved"]
    ELSE [ok |-> FALSE, remoteJwks |-> FALSE, jwksInitPromise |-> "rejected"]

\* verifyAuthorization: result "auth" (an identity), "null" or "throw"
verifyAuthorization(mock, cached, promise, header, d) ==
  LET bearer == parseBearer(header)
      token == bearer.token
      keep(r, a) == [result |-> r, auth |-> a, remoteJwks |-> cached, jwksInitPromise |-> promise]
  IN
  IF mock THEN
    IF bearer.null THEN keep("null", NoAuth)
    ELSE IF ~token.decodes THEN keep("null", NoAuth)
    ELSE LET sub == IF Falsy(token.sub) THEN "mock-user" ELSE token.sub
             issuerValue == IF Falsy(token.iss) THEN "urn:mock" ELSE token.iss
             display == IF stringifyDisplay(token) # Undef THEN stringifyDisplay(token) ELSE sub
         IN keep("auth", [subjectSystem |-> issuerValue \o "#sub", subjectValue |-> sub,
                          display |-> display])
  ELSE
    IF bearer.null THEN keep("null", NoAuth)
    ELSE LET jwks == resolveJwks(cached, promise, d)
             out(r, a) == [result |-> r, auth |-> a, remoteJwks |-> jwks.remoteJwks,
                           jwksInitPromise |-> jwks.jwksInitPromise]
         IN IF ~jwks.ok THEN out("throw", NoAuth)
            ELSE IF ~token.verifies THEN out("null", NoAuth)
            ELSE IF Falsy(token.sub) THEN out("null", NoAuth)
            ELSE out("auth", [subjectSystem |-> issuer \o "#sub", subjectValue |-> token.sub,
                              display |-> stringifyDisplay(token)])

(***************************************************************************)
(* src/src/db.ts (lines 263-457): FHIRStore                                *)
(***************************************************************************)
\* generateId: randomUUID yields an id no stored resource uses
generateId(table) == Ids \ DOMAIN table

\* a variant of the INSERT that replaces the row of a used id
Insert_OrReplace(table, id, json) ==
  [threw |-> FALSE,
   table |-> [i \in DOMAIN table \cup {id} |-> IF i = id THEN json ELSE table[i]]]

\* INSERT INTO resources (id, json): the primary key rejects a used id
Insert(table, id, json) ==
  IF id \in DOMAIN table
    THEN [threw |-> TRUE, table |-> table]
    ELSE [threw |-> FALSE, table |-> table @@ (id :> json)]

\* a variant of create that takes an empty string for an id
create_KeepsEmptyId(table, resource, gen) ==
  LET id == IF resource["id"] # Undef THEN resource["id"] ELSE gen
      payload == [resource EXCEPT !["id"] = id]
      ins == Insert(table, id, JSONstringify(payload))
  IN [threw |-> ins.threw, table |-> ins.table, payload |-> payload]

\* create(resource) with gen the value generateId() would return
create(table, resource, gen) ==
  LET id == IF ~Falsy(resource["id"]) THEN resource["id"] ELSE gen
      payload == [resource EXCEPT !["id"] = id]
      ins == Insert(table, id, JSONstringify(payload))
  IN [threw |-> ins.threw, table |-> ins.table, payload |-> payload]

\* a variant of replace that leaves an existing row as it is
replace_KeepsExisting(table, resourceType, id, resource) ==
  LET payload == [resource EXCEPT !["resourceType"] = resourceType, !["id"] = id]
  IN IF id \in DOMAIN table
       THEN [table |-> table, resource |-> payload, created |-> FALSE]
       ELSE [table |-> Insert(table, id, JSONstringify(payload)).table, resource |-> payload,
             created |-> TRUE]

\* a variant of replace that tests existence by id and resourceType
replace_ExistsByType(table, resourceType, id, resource) ==
  LET payload == [resource EXCEPT !["resourceType"] = resourceType, !["id"] = id]
      json == JSONstringify(payload)
      exists == id \in DOMAIN table /\ JSONparse(table[id])["resourceType"] = resourceType
  IN IF exists
       THEN [table |-> [table EXCEPT ![id] = json], resource |-> payload, created |-> FALSE]
       ELSE [table |-> IF id \in DOMAIN table THEN [table EXCEPT ![id] = json]
                       ELSE table @@ (id :> json),
             resource |-> payload, created |-> TRUE]

replace(table, resourceType, id, resource) ==
  LET payload == [resource EXCEPT !["resourceType"] = resourceType, !["id"] = id]
      json == JSONstringify(payload)
      exists == id \in DOMAIN table
  IN IF exists
       THEN [table |-> [table EXCEPT ![id] = json], resource |-> payload, created |-> FALSE]
       ELSE [table |-> Insert(table, id, json).table, resource |-> payload, created |-> TRUE]

\* a variant of get that does not compare the resourceType
get_IgnoresType(table, resourceType, id) ==
  IF id \notin DOMAIN table THEN [found |-> FALSE, resource |-> EmptyObj]
  ELSE [found |-> TRUE, resource |-> JSONparse(table[id])]

\* get(resourceType, id): found is FALSE where the code returns null
get(table, resourceType, id) ==
  IF id \notin DOMAIN table THEN [found |-> FALSE, resource |-> EmptyObj]
  ELSE LET parsed == JSONparse(table[id])
       IN IF parsed["resourceType"] # resourceType
            THEN [found |-> FALSE, resource |-> EmptyObj]
            ELSE [found |-> TRUE, resource |-> parsed]


(***************************************************************************)
(* src/unnamed/part_009: the /fhir handlers                                *)
(***************************************************************************)
\* safeJson: the parsed body, or null when request.json() throws
safeJson(body) == IF body.kind = "malformed" THEN NoBody ELSE body

\* `!body || typeof body !== 'object'`
InvalidBody(body) == body.kind \in {"null", "scalar"}

\* body.resourceType; an array has no such property
ResourceTypeOf(body) == IF body.kind = "object" THEN body.obj["resourceType"] ELSE Undef

\* a variant of PinSubject that keeps an identifier the client sent
PinSubject_TrustsClient(resource, auth) ==
  IF IsObject(resource["subject"]) /\ IsObject(resource["subject.identifier"])
    THEN resource
    ELSE [resource EXCEPT !["subject"] = Obj,
                          !["subject.identifier"] = Obj,
                          !["subject.identifier.system"] = auth.subjectSystem,
                          !["subject.identifier.value"] = auth.subjectValue]

\* enforceQuestionnaireResponseInvariants, lines 165-179: the subject is
\* overwritten with the caller's identity
PinSubject(resource, auth) ==
  LET r1 == IF Falsy(resource["subject"]) \/ ~IsObject(resource["subject"])
              THEN [resource EXCEPT !["subject"] = Obj,
                                    !["subject.identifier"] = Undef,
                                    !["subject.identifier.system"] = Undef,
                                    !["subject.identifier.value"] = Undef,
                                    !["subject.display"] = Undef]
              ELSE resource
      r2 == [r1 EXCEPT !["subject.identifier"] = Obj,
                       !["subject.identifier.system"] = auth.subjectSystem,
                       !["subject.identifier.value"] = auth.subjectValue]
  IN IF Falsy(r2["subject.display"]) /\ ~Falsy(auth.display)
       THEN [r2 EXCEPT !["subject.display"] = auth.display]
       ELSE r2

\* a variant of RequiredFields that does not look at status
RequiredFields_OnlyQuestionnaire(resource) ==
  IF Falsy(resource["questionnaire"])
    THEN "QuestionnaireResponse.questionnaire is required"
    ELSE Undef

\* enforceQuestionnaireResponseInvariants, lines 181-187: the error text, Undef for null
RequiredFields(resource) ==
  IF Falsy(resource["questionnaire"])
    THEN "QuestionnaireResponse.questionnaire is required"
  ELSE IF Falsy(resource["status"])
    THEN "QuestionnaireResponse.status is required"
  ELSE Undef

\* enforceQuestionnaireResponseInvariants: the resource as mutated, and the error
enforceQuestionnaireResponseInvariants(resource, auth) ==
  [resource |-> PinSubject(resource, auth),
   error |-> RequiredFields(PinSubject(resource, auth))]

Response(status, text, json, location) ==
  [status |-> status, text |-> text, json |-> json, location |-> location]

LocationOf(type, id) == "/fhir/" \o type \o "/" \o id

\* the checks POST and PUT share (lines 66-86 and 99-119): the early response,
\* or the body to store
Admit(type, v, body) ==
  IF type \notin allowedResourceTypes
    THEN [stop |-> TRUE, resp |-> Response(404, "Not Found", NoJson, Undef), resource |-> EmptyObj]
  ELSE IF v.result = "throw"
    THEN [stop |-> TRUE, resp |-> Response(500, "Internal Server Error", NoJson, Undef),
          resource |-> EmptyObj]
  ELSE IF v.result = "null"
    THEN [stop |-> TRUE, resp |-> Response(401, "Unauthorized", NoJson, Undef), resource |-> EmptyObj]
  ELSE IF InvalidBody(safeJson(body))
    THEN [stop |-> TRUE, resp |-> Response(400, "Invalid body", NoJson, Undef), resource |-> EmptyObj]
  ELSE IF ResourceTypeOf(safeJson(body)) # type
    THEN [stop |-> TRUE, resp |-> Response(400, "resourceType mismatch", NoJson, Undef),
          resource |-> EmptyObj]
  ELSE IF type = "QuestionnaireResponse"
    THEN LET e == enforceQuestionnaireResponseInvariants(body.obj, v.auth)
         IN IF e.error # Undef
              THEN [stop |-> TRUE, resp |-> Response(400, e.error, NoJson, Undef),
                    resource |-> EmptyObj]
              ELSE [stop |-> FALSE, resp |-> Response(0, Undef, NoJson, Undef),
                    resource |-> e.resource]
  ELSE [stop |-> FALSE, resp |-> Response(0, Undef, NoJson, Undef), resource |-> body.obj]

Request(method, type, id, header, body) ==
  [method |-> method, type |-> type, id |-> id, header |-> header, body |-> body]

NoRequest == Request("none", Undef, Undef, [scheme |-> "none", token |-> NoToken], NoBody)
NoResponse == Response(0, Undef, NoJson, Undef)

\* the outcomes the discovery fetch can have in this request: it is made only
\* by a bearer request of an allowed type, outside mock mode, with nothing cached
DiscoveryFor(type, header) ==
  IF /\ type \in allowedResourceTypes
     /\ ~allowMock
     /\ header.scheme = "Bearer"
     /\ ~remoteJwks
     /\ jwksInitPromise = "null"
    THEN DiscoveryOutcomes
    ELSE {"none"}

\* whether the verifier is consulted: the type check comes first
AuthState(type, v) ==
  /\ remoteJwks' = IF type \in allowedResourceTypes THEN v.remoteJwks ELSE remoteJwks
  /\ jwksInitPromise' = IF type \in allowedResourceTypes THEN v.jwksInitPromise ELSE jwksInitPromise

\* app.get('/fhir/:type/:id'): the response, v being the verifier's answer
GetResponse(table, type, id, v) ==
  LET resource == get(table, type, id)
  IN IF type \notin allowedResourceTypes THEN Response(404, "Not Found", NoJson, Undef)
     ELSE IF v.result = "throw" THEN Response(500, "Internal Server Error", NoJson, Undef)
     ELSE IF v.result = "null" THEN Response(401, "Unauthorized", NoJson, Undef)
     ELSE IF ~resource.found THEN Response(404, "Not Found", NoJson, Undef)
     ELSE Response(200, Undef, JSONstringify(resource.resource), Undef)

GetResource(type, id, header, d) ==
  LET v == verifyAuthorization(allowMock, remoteJwks, jwksInitPromise, header, d)
  IN /\ req' = Request("GET", type, id, header, NoBody)
     /\ resp' = GetResponse(resources, type, id, v)
     /\ AuthState(type, v)
     /\ UNCHANGED <<allowMock, resources>>
     /\ UNCHANGED <<portalVars, restVars>>

\* app.post('/fhir/:type')
PostResource(type, header, body, d, gen) ==
  LET v == verifyAuthorization(allowMock, remoteJwks, jwksInitPromise, header, d)
      a == Admit(type, v, body)
      c == create(resources, a.resource, gen)
  IN /\ req' = Request("POST", type, Undef, header, body)
     /\ AuthState(type, v)
     /\ IF a.stop THEN resp' = a.resp /\ resources' = resources
        ELSE IF c.threw
          THEN /\ resp' = Response(500, "Internal Server Error", NoJson, Undef)
               /\ resources' = resources
        ELSE /\ resp' = Response(201, Undef, JSONstringify(c.payload),
                                 LocationOf(type, c.payload["id"]))
             /\ resources' = c.table
     /\ UNCHANGED allowMock
     /\ UNCHANGED <<portalVars, restVars>>

\* app.put('/fhir/:type/:id')
PutResource(type, id, header, body, d) ==
  LET v == verifyAuthorization(allowMock, remoteJwks, jwksInitPromise, header, d)
      a == Admit(type, v, body)
      result == replace(resources, type, id, a.resource)
  IN /\ req' = Request("PUT", type, id, header, body)
     /\ AuthState(type, v)
     /\ IF a.stop THEN resp' = a.resp /\ resources' = resources
        ELSE /\ resp' = IF result.created
                          THEN Response(201, Undef, JSONstringify(result.resource),
                                        LocationOf(type, id))
                          ELSE Response(200, Undef, JSONstringify(result.resource), Undef)
             /\ resources' = result.table
     /\ UNCHANGED allowMock
     /\ UNCHANGED <<portalVars, restVars>>

\* the (type, header, body) of the write requests: every body under a token
\* that names a subject, sample bodies under the other headers, and one
\* request per header for a type that is not allowed
SampleBodies ==
  { [kind |-> "malformed", obj |-> EmptyObj],
    [kind |-> "object",
     obj |-> [EmptyObj EXCEPT !["resourceType"] = "QuestionnaireResponse",
                              !["questionnaire"] = COI_CANONICAL_URL,
                              !["status"] = "completed"]],
    [kind |-> "object",
     obj |-> [EmptyObj EXCEPT !["resourceType"] = "Questionnaire", !["status"] = "draft"]] }

Promising(header) ==
  header.scheme = "Bearer" /\ header.token.decodes /\ ~Falsy(header.token.sub)

WriteInputs ==
  { <<t, h, b>> : t \in allowedResourceTypes, h \in {x \in Headers : Promising(x)},
                  b \in Bodies }
  \cup { <<t, h, b>> : t \in allowedResourceTypes, h \in {x \in Headers : ~Promising(x)},
                       b \in SampleBodies }
  \cup { <<t, h, b>> : t \in PathTypes \ allowedResourceTypes, h \in Headers,
                       b \in {x \in SampleBodies : x.kind = "malformed"} }

Idle == req = NoRequest

Get == \E type \in PathTypes, id \in Ids, header \in Headers :
         /\ Idle
         /\ \E d \in DiscoveryFor(type, header) : GetResource(type, id, header, d)

\* a POST that needs a generated id waits for the bounded id pool
Post == \E in \in WriteInputs :
          /\ Idle
          /\ generateId(resources) # {}
          /\ \E gen \in generateId(resources), d \in DiscoveryFor(in[1], in[2]) :
               PostResource(in[1], in[2], in[3], d, gen)

Put == \E in \in WriteInputs, id \in Ids :
         /\ Idle
         /\ \E d \in DiscoveryFor(in[1], in[2]) : PutResource(in[1], id, in[2], in[3], d)

\* the response has been sent; the server waits for the next request
Deliver ==
  /\ ~Idle
  /\ req' = NoRequest
  /\ resp' = NoResponse
  /\ UNCHANGED <<allowMock, remoteJwks, jwksInitPromise, resources>>
  /\ UNCHANGED <<portalVars, restVars>>

(***************************************************************************)
(* src/src/db.ts (lines 324-457): FHIRStore.search                         *)
(***************************************************************************)
\* strings as JavaScript and SQLite see them: characters by position
CharAt(str, i) == SubSeq(str, i, i)

\* String.prototype.slice(from) and slice(0, to), 0-based as in JavaScript
SliceFrom(str, from) == SubSeq(str, from + 1, Len(str))
SliceTo(str, to) == SubSeq(str, 1, IF to < Len(str) THEN to ELSE Len(str))

\* str.indexOf(ch) + 1: the position of the first ch, 0 when there is none
IndexOf(str, ch) ==
  LET at == {i \in 1..Len(str) : CharAt(str, i) = ch}
  IN IF at = {} THEN 0 ELSE CHOOSE i \in at : \A k \in at : i <= k

\* str.includes(ch)
Includes(str, ch) == IndexOf(str, ch) > 0

Digits == <<"0", "1", "2", "3", "4", "5", "6", "7", "8", "9">>

IsDigit(c) == \E k \in 1..10 : Digits[k] = c

DigitValue(c) == (CHOOSE k \in 1..10 : Digits[k] = c) - 1

AllDigits(str) == \A i \in 1..Len(str) : IsDigit(CharAt(str, i))

\* the value of a string of decimal digits
RECURSIVE DecimalTo(_, _)
DecimalTo(str, n) ==
  IF n = 0 THEN 0
  ELSE 10 * DecimalTo(str, n - 1) + DigitValue(CharAt(str, n))

Decimal(str) == DecimalTo(str, Len(str))

NaN == [finite |-> FALSE, floor |-> 0]

\* Number(raw) for signed decimal numerals ("12", "-5", "2.7"): whether the
\* result is finite, and Math.floor of it; any other text is NaN
Number(raw) ==
  LET negative == Len(raw) > 0 /\ CharAt(raw, 1) = "-"
      unsigned == IF negative THEN SliceFrom(raw, 1) ELSE raw
      dot == IndexOf(unsigned, ".")
      whole == IF dot = 0 THEN unsigned ELSE SubSeq(unsigned, 1, dot - 1)
      fraction == IF dot = 0 THEN "" ELSE SubSeq(unsigned, dot + 1, Len(unsigned))
      wellFormed == /\ AllDigits(whole) /\ AllDigits(fraction)
                    /\ Len(whole) + Len(fraction) > 0
      magnitude == Decimal(whole)
      hasFraction == Decimal(fraction) > 0
  IN IF ~wellFormed THEN NaN
     ELSE IF ~negative THEN [finite |-> TRUE, floor |-> magnitude]
     ELSE [finite |-> TRUE,
           floor |-> IF hasFraction THEN 0 - magnitude - 1 ELSE 0 - magnitude]

Min(a, b) == IF a < b THEN a ELSE b
Max(a, b) == IF a > b THEN a ELSE b

\* clampCount without the lower bound
clampCount_NoFloorOfOne(raw) ==
  LET parsed == IF ~Falsy(raw) THEN Number(raw) ELSE NaN
  IN IF ~parsed.finite THEN 50
     ELSE Min(parsed.floor, 200)

\* clampCount(raw): raw is what params.get('_count') returns (Undef for null)
clampCount(raw) ==
  LET parsed == IF ~Falsy(raw) THEN Number(raw) ELSE NaN
  IN IF ~parsed.finite THEN 50
     ELSE Min(Max(1, parsed.floor), 200)

\* clampPage(raw); parsed < 1 exactly when Math.floor(parsed) < 1
clampPage(raw) ==
  LET parsed == IF ~Falsy(raw) THEN Number(raw) ELSE NaN
  IN IF ~parsed.finite \/ parsed.floor < 1 THEN 1
     ELSE parsed.floor

\* parseDatePrefix(raw)
parseDatePrefix(raw) ==
  LET prefix == SliceTo(raw, 2)
  IN IF prefix = "ge" THEN [op |-> ">=", value |-> SliceFrom(raw, 2)]
     ELSE IF prefix = "gt" THEN [op |-> ">", value |-> SliceFrom(raw, 2)]
     ELSE IF prefix = "le" THEN [op |-> "<=", value |-> SliceFrom(raw, 2)]
     ELSE IF prefix = "lt" THEN [op |-> "<", value |-> SliceFrom(raw, 2)]
     ELSE [op |-> "=", value |-> raw]

\* SQLite compares TEXT byte by byte (BINARY collation): the characters that
\* occur, in code order
CodeOrder == " #%-./0123456789:ABCDEFGHIJKLMNOPQRSTUVWXYZ_abcdefghijklmnopqrstuvwxyz|"

CharCode(c) == IndexOf(CodeOrder, c)

\* a < b: at the first position where they differ a has ended or has the
\* character of the smaller code
TextLess(a, b) ==
  \E i \in 1..Len(b) :
    /\ i <= Len(a) + 1
    /\ SubSeq(a, 1, i - 1) = SubSeq(b, 1, i - 1)
    /\ \/ i > Len(a)
       \/ CharCode(CharAt(a, i)) < CharCode(CharAt(b, i))

\* a comparison of a column with a bound parameter; NULL compares to nothing
SqlCompare(column, op, value) ==
  /\ column # Undef
  /\ CASE op = "=" -> column = value
       [] op = "<" -> TextLess(column, value)
       [] op = "<=" -> column = value \/ TextLess(column, value)
       [] op = ">" -> TextLess(value, column)
       [] op = ">=" -> column = value \/ TextLess(value, column)

UpperLetters == "ABCDEFGHIJKLMNOPQRSTUVWXYZ"
LowerLetters == "abcdefghijklmnopqrstuvwxyz"

\* LIKE folds the case of ASCII letters
ToLower(c) ==
  IF IndexOf(UpperLetters, c) > 0 THEN CharAt(LowerLetters, IndexOf(UpperLetters, c)) ELSE c

\* column LIKE pattern: % is any run of characters, _ any one character
\* one pattern character other than % against one character of the text
LikeChar(p, c) == p = "_" \/ ToLower(p) = ToLower(c)

\* the lengths of the prefixes of text that the first n pattern characters
\* match; q is the place of the last % among them
RECURSIVE LikePrefixes(_, _, _)
LikePrefixes(pattern, text, n) ==
  LET percents == {i \in 1..n : CharAt(pattern, i) = "%"}
      q == IF percents = {} THEN 0 ELSE CHOOSE i \in percents : \A k \in percents : k <= i
      starts == IF q = 0 THEN {0}
                ELSE LET before == LikePrefixes(pattern, text, q - 1)
                     IN {k \in 0..Len(text) : \E j \in before : j <= k}
  IN {b + (n - q) : b \in {x \in starts :
                             /\ x + (n - q) <= Len(text)
                             /\ \A d \in 1..(n - q) :
                                  LikeChar(CharAt(pattern, q + d), CharAt(text, x + d))}}

LikeMatch(pattern, text) == Len(text) \in LikePrefixes(pattern, text, Len(pattern))

SqlLike(column, pattern) == column # Undef /\ LikeMatch(pattern, column)

\* URLSearchParams as search reads it: get(name) for the single-valued
\* parameters (Undef for null), getAll(name) for the repeated ones, and a
\* parameter no branch of search reads
SearchParams(status, url, version, id, subjectIdentifier, questionnaire, authored, count, page, other) ==
  [status |-> status, url |-> url, version |-> version, id |-> id,
   subjectIdentifier |-> subjectIdentifier, questionnaire |-> questionnaire,
   authored |-> authored, count |-> count, page |-> page, other |-> other]

NoParams == SearchParams(Undef, Undef, Undef, Undef, <<>>, Undef, <<>>, Undef, Undef, Undef)

\* one subject:identifier value: the clause it adds, none for an empty value
subjectClause(raw) ==
  LET bar == IndexOf(raw, "|")
      system == IF bar > 0 THEN SubSeq(raw, 1, bar - 1) ELSE EmptyStr
      value == IF bar > 0 THEN SubSeq(raw, bar + 1, Len(raw)) ELSE raw
  IN [skip |-> raw = EmptyStr, system |-> system, value |-> value]

\* the subject:identifier clauses with the system left out of the comparison
subjectMatches_ValueOnly(row, raws) ==
  LET clauses == {k \in 1..Len(raws) : ~subjectClause(raws[k]).skip}
  IN clauses # {} =>
       \E k \in clauses :
         SqlCompare(row["subject.identifier.value"], "=", subjectClause(raws[k]).value)

\* the OR of the subject:identifier clauses on one row
subjectMatches(row, raws) ==
  LET clauses == {k \in 1..Len(raws) : ~subjectClause(raws[k]).skip}
  IN clauses # {} =>
       \E k \in clauses :
         LET c == subjectClause(raws[k])
         IN IF c.system # EmptyStr
              THEN /\ SqlCompare(row["subject.identifier.system"], "=", c.system)
                   /\ SqlCompare(row["subject.identifier.value"], "=", c.value)
              ELSE SqlCompare(row["subject.identifier.value"], "=", c.value)

\* the questionnaire clause on one row
questionnaireMatches(row, questionnaire) ==
  IF Falsy(questionnaire) THEN TRUE
  ELSE IF Includes(questionnaire, "|")
    THEN SqlCompare(row["questionnaire"], "=", questionnaire)
  ELSE \/ SqlCompare(row["questionnaire"], "=", questionnaire)
       \/ SqlLike(row["questionnaire"], questionnaire \o "|%")

\* the authored clauses with the prefix kept in the compared value
authoredMatches_KeepsPrefix(row, raws) ==
  \A k \in 1..Len(raws) :
    raws[k] # EmptyStr =>
      SqlCompare(row["authored"], parseDatePrefix(raws[k]).op, raws[k])

\* the AND of the authored clauses on one row
authoredMatches(row, raws) ==
  \A k \in 1..Len(raws) :
    raws[k] # EmptyStr =>
      SqlCompare(row["authored"], parseDatePrefix(raws[k]).op, parseDatePrefix(raws[k]).value)

\* the WHERE clause with the url filter applied to every resource type
whereMatches_UrlForAll(id, row, resourceType, params) ==
  /\ SqlCompare(row["resourceType"], "=", resourceType)
  /\ Falsy(params.status) \/ SqlCompare(row["status"], "=", params.status)
  /\ Falsy(params.url) \/ SqlCompare(row["url"], "=", params.url)
  /\ resourceType = "Questionnaire" =>
       /\ Falsy(params.version) \/ SqlCompare(row["version"], "=", params.version)
       /\ Falsy(params.id) \/ id = params.id
  /\ resourceType = "QuestionnaireResponse" =>
       /\ subjectMatches(row, params.subjectIdentifier)
       /\ questionnaireMatches(row, params.questionnaire)
       /\ authoredMatches(row, params.authored)

\* the WHERE clause search builds, on the row stored under id
whereMatches(id, row, resourceType, params) ==
  /\ SqlCompare(row["resourceType"], "=", resourceType)
  /\ Falsy(params.status) \/ SqlCompare(row["status"], "=", params.status)
  /\ resourceType = "Questionnaire" =>
       /\ Falsy(params.url) \/ SqlCompare(row["url"], "=", params.url)
       /\ Falsy(params.version) \/ SqlCompare(row["version"], "=", params.version)
       /\ Falsy(params.id) \/ id = params.id
  /\ resourceType = "QuestionnaireResponse" =>
       /\ subjectMatches(row, params.subjectIdentifier)
       /\ questionnaireMatches(row, params.questionnaire)
       /\ authoredMatches(row, params.authored)

\* SELECT without ORDER BY: the rows come in the order the query plan fixes
\* for a statement and a table
scanOrder(ids) ==
  CHOOSE order \in [1..Cardinality(ids) -> ids] :
    \A a, b \in 1..Cardinality(ids) : a # b => order[a] # order[b]

\* search with OFFSET page * limit
search_OffsetByPage(table, resourceType, params) ==
  LET selected == {id \in DOMAIN table :
                     whereMatches(id, JSONparse(table[id]), resourceType, params)}
      limit == clampCount(params.count)
      page == clampPage(params.page)
      offset == page * limit
      order == scanOrder(selected)
      rows == SubSeq(order, offset + 1, Min(offset + limit, Len(order)))
  IN [resources |-> [k \in 1..Len(rows) |-> JSONparse(table[rows[k]])],
      total |-> Cardinality(selected), limit |-> limit, page |-> page]

\* FHIRStore.search(resourceType, params)
search(table, resourceType, params) ==
  LET selected == {id \in DOMAIN table :
                     whereMatches(id, JSONparse(table[id]), resourceType, params)}
      limit == clampCount(params.count)
      page == clampPage(params.page)
      offset == (page - 1) * limit
      order == scanOrder(selected)
      rows == SubSeq(order, offset + 1, Min(offset + limit, Len(order)))
  IN [resources |-> [k \in 1..Len(rows) |-> JSONparse(table[rows[k]])],
      total |-> Cardinality(selected), limit |-> limit, page |-> page]

(***************************************************************************)
(* src/unnamed/part_009 (lines 32-46, 199-228): the search route           *)
(***************************************************************************)
\* toBundle(result, searchParams, absoluteUrl)
toBundle(result, params) ==
  [total |-> result.total,
   entry |-> result.resources,
   page |-> IF params.page # Undef THEN params.page ELSE "1",
   count |-> IF params.count # Undef THEN params.count ELSE ToString(result.limit)]

NoResult == [resources |-> <<>>, total |-> 0, limit |-> 0, page |-> 0]
NoBundle == [total |-> 0, entry |-> <<>>, page |-> Undef, count |-> Undef]

\* the response of the search route: the bundle sent, and the FHIRSearchResult
\* the handler built it from
SearchResponse(status, text, result, bundle) ==
  [status |-> status, text |-> text, json |-> NoJson, location |-> Undef,
   result |-> result, bundle |-> bundle]

SearchRequest(type, header, params) ==
  [method |-> "SEARCH", type |-> type, id |-> Undef, header |-> header, body |-> NoBody,
   params |-> params]

\* app.get('/fhir/:type')
SearchResources(type, header, params, d) ==
  LET v == verifyAuthorization(allowMock, remoteJwks, jwksInitPromise, header, d)
      result == search(resources, type, params)
  IN /\ req' = SearchRequest(type, header, params)
     /\ resp' = IF type \notin allowedResourceTypes
                  THEN SearchResponse(404, "Not Found", NoResult, NoBundle)
                ELSE IF v.result = "throw"
                  THEN SearchResponse(500, "Internal Server Error", NoResult, NoBundle)
                ELSE IF v.result = "null"
                  THEN SearchResponse(401, "Unauthorized", NoResult, NoBundle)
                ELSE SearchResponse(200, Undef, result, toBundle(result, params))
     /\ AuthState(type, v)
     /\ UNCHANGED <<allowMock, resources>>
     /\ UNCHANGED <<portalVars, restVars>>

\* the query of seedCanonicalQuestionnaire
CanonicalQuery == [NoParams EXCEPT !.url = COI_CANONICAL_URL, !.version = COI_VERSION]

\* seedCanonicalQuestionnaire(store); gen is what generateId returns
seedCanonicalQuestionnaire(table, gen) ==
  IF search(table, "Questionnaire", CanonicalQuery).total > 0
    THEN table
    ELSE create(table, canonicalQuestionnaire, gen).table

\* the server is started again on the same database (lines 19-22): the
\* module state of auth.ts is new, the table is seeded if the query finds no
\* canonical questionnaire; a seeding waits for the bounded id pool
Restart ==
  /\ Idle
  /\ \E gen \in IF search(resources, "Questionnaire", CanonicalQuery).total > 0
                  THEN {Undef} ELSE generateId(resources) :
       resources' = seedCanonicalQuestionnaire(resources, gen)
  /\ remoteJwks' = FALSE
  /\ jwksInitPromise' = "null"
  /\ UNCHANGED <<allowMock, req, resp>>
  /\ UNCHANGED <<portalVars, restVars>>

(***************************************************************************)
(* Tables and query strings for the search route                           *)
(***************************************************************************)
\* a response as POST and PUT store it, the subject pinned to its author
StoredResponse(system, value, questionnaire, status, authored) ==
  [EmptyObj EXCEPT !["resourceType"] = "QuestionnaireResponse",
                   !["subject"] = Obj, !["subject.identifier"] = Obj,
                   !["subject.identifier.system"] = system,
                   !["subject.identifier.value"] = value,
                   !["subject.display"] = value,
                   !["questionnaire"] = questionnaire,
                   !["status"] = status,
                   !["authored"] = authored]

OtherUrl == COI_CANONICAL_URL \o "2"
UpperUrl == "https://example.org/hl7-coi/Questionnaire/COI"

\* the rows a table may hold, by id: the seeded questionnaire, an older
\* version of it, and responses of two authors
SampleRows ==
  [r1 |-> canonicalQuestionnaire,
   r2 |-> [canonicalQuestionnaire EXCEPT !["version"] = "2024.01.0", !["status"] = "draft"],
   r3 |-> StoredResponse("urn:mock#sub", "alice", COI_CANONICAL_URL \o "|" \o COI_VERSION,
                         "completed", "2025-03-01"),
   r4 |-> StoredResponse("https://idp#sub", "alice", COI_CANONICAL_URL,
                         "in-progress", "2025-06-01"),
   r5 |-> StoredResponse("urn:mock#sub", "bob", OtherUrl \o "|1", "completed", Undef),
   r6 |-> StoredResponse("urn:mock#sub", "bob", UpperUrl \o "|1", "completed", "2025-09-01")]

\* the tables of at most MaxRows of these rows
SearchTables ==
  { [id \in ids |-> JSONstringify([SampleRows[id] EXCEPT !["id"] = id])] :
      ids \in {x \in SUBSET DOMAIN SampleRows : Cardinality(x) <= MaxRows} }

\* values of _count and _page: absent, empty, not numeric, below, inside and
\* above the range, with a fraction
Counts == {Undef, EmptyStr, "abc", "0", "1", "2", "2.7", "-5", "200", "201", "99999"}
Pages == {Undef, "abc", "0", "1", "2", "3", "1.5", "-1"}

PagingParams ==
  { [NoParams EXCEPT !.count = c, !.page = g] : c \in Counts, g \in Pages }

QuestionnaireParams ==
  { [NoParams EXCEPT !.status = st, !.url = u, !.version = v, !.id = i, !.other = o] :
      st \in {Undef, "active"}, u \in {Undef, EmptyStr, COI_CANONICAL_URL},
      v \in {Undef, COI_VERSION}, i \in {Undef, "r2"}, o \in {Undef, "x"} }

SubjectValues ==
  { <<>>, <<"alice">>, <<"urn:mock#sub|alice">>, <<"|alice">>, <<"urn:mock#sub|">>,
    <<EmptyStr>>, <<EmptyStr, "bob">>, <<"https://idp#sub|alice", "bob">>,
    <<"urn:mock#sub|carol">> }

SubjectParams ==
  { [NoParams EXCEPT !.subjectIdentifier = si, !.status = st] :
      si \in SubjectValues, st \in {Undef, "completed"} }

QuestionnaireValues ==
  { EmptyStr, COI_CANONICAL_URL, COI_CANONICAL_URL \o "|" \o COI_VERSION,
    COI_CANONICAL_URL \o "|1", OtherUrl, UpperUrl, UpperUrl \o "|1",
    "https://example.org/hl7-coi/Questionnaire/co_",
    "https://example.org/hl7-coi/Questionnaire/%" }

CanonicalParams ==
  { [NoParams EXCEPT !.questionnaire = q, !.url = u] :
      q \in QuestionnaireValues, u \in {Undef, COI_CANONICAL_URL} }

AuthoredValues ==
  { <<"ge2025-03-01">>, <<"gt2025-03-01">>, <<"le2025-06-01">>, <<"lt2025-06-01">>,
    <<"2025-06-01">>, <<"eq2025-06-01">>, <<EmptyStr>>,
    <<"ge2025-03-01", "le2025-06-01">>, <<"gt2025-03-01", "lt2025-09-01">>,
    <<"ge2025-06-01", EmptyStr>>, <<"le2025-03-01", "ge2025-06-01">> }

AuthoredParams ==
  { [NoParams EXCEPT !.authored = a, !.version = v] :
      a \in AuthoredValues, v \in {Undef, COI_VERSION} }

\* the caller of the searches
Reader ==
  [scheme |-> "Bearer",
   token |-> [decodes |-> TRUE, verifies |-> TRUE, sub |-> "alice", iss |-> Undef,
              name |-> "Alice"]]

\* searches: <<type, Authorization header, query string>>
SearchInputs ==
  { <<"QuestionnaireResponse", Reader, q>> :
      q \in PagingParams \cup SubjectParams \cup CanonicalParams \cup AuthoredParams }
  \cup
  { <<"Questionnaire", Reader, q>> :
      q \in QuestionnaireParams
            \cup { [NoParams EXCEPT !.count = c, !.page = g] :
                     c \in {Undef, "1"}, g \in {Undef, "2"} }
            \cup { [NoParams EXCEPT !.subjectIdentifier = <<"alice">>,
                                    !.questionnaire = COI_CANONICAL_URL,
                                    !.authored = <<"ge2025-03-01">>] } }
  \cup
  { <<"Patient", Reader, NoParams>>,
    <<"QuestionnaireResponse", [scheme |-> "none", token |-> NoToken], NoParams>>,
    <<"Questionnaire", [scheme |-> "Bearer", token |-> NoToken], NoParams>> }

Search == \E in \in SearchInputs :
            /\ Idle
            /\ \E d \in DiscoveryFor(in[1], in[2]) : SearchResources(in[1], in[2], in[3], d)

(***************************************************************************)
(* src/src/db.ts (lines 1-261): the portal store DB                        *)
(***************************************************************************)
Users == 1..MaxUsers
Times == 1..MaxTime
SnapshotIds == 1..MaxSnapshots

\* SQL NULL in a timestamp column, and an omitted timestamp argument
NullTime == 0

\* DisclosureDocument: the four entry lists
DocumentKeys == {"roles", "financial", "ownerships", "gifts"}

emptyDocument == [k \in DocumentKeys |-> <<>>]

Documents ==
  { emptyDocument,
    [emptyDocument EXCEPT !["roles"] = <<"Acme">>] }

\* JSON.stringify / JSON.parse of a document: the (key, value) pairs of its keys
DocStringify(document) == {<<k, document[k]>> : k \in DOMAIN document}

DocParse(json) ==
  [k \in {kv[1] : kv \in json} |-> (CHOOSE kv \in json : kv[1] = k)[2]]

\* JSON.stringify / JSON.parse of the history array
HistoryStringify(history) ==
  [i \in 1..Len(history) |->
     [id |-> history[i].id, submittedAt |-> history[i].submittedAt,
      document |-> DocStringify(history[i].document)]]

HistoryParse(json) ==
  [i \in 1..Len(json) |->
     [id |-> json[i].id, submittedAt |-> json[i].submittedAt,
      document |-> DocParse(json[i].document)]]

NullJson == [null |-> TRUE, text |-> {}]
NullDraft == [null |-> TRUE, savedAt |-> NullTime, document |-> emptyDocument]
NullRecord ==
  [null |-> TRUE, id |-> 0, user_id |-> 0, draft |-> NullDraft, history |-> <<>>,
   last_submitted_at |-> NullTime, updated_at |-> NullTime]

deserializeDisclosure(id, row) ==
  [null |-> FALSE,
   id |-> id,
   user_id |-> row.user_id,
   draft |-> IF ~row.draft_json.null
               THEN [null |-> FALSE, savedAt |-> row.draft_saved_at,
                     document |-> DocParse(row.draft_json.text)]
               ELSE NullDraft,
   history |-> HistoryParse(row.history_json),
   last_submitted_at |-> row.last_submitted_at,
   updated_at |-> row.updated_at]

getDisclosure(table, disclosure_id) ==
  IF disclosure_id \in DOMAIN table
    THEN deserializeDisclosure(disclosure_id, table[disclosure_id])
    ELSE NullRecord

\* randomId: an id no stored snapshot uses
randomId(table) ==
  SnapshotIds \ UNION {{table[d].history_json[i].id : i \in 1..Len(table[d].history_json)} :
                         d \in DOMAIN table}

\* getOrCreateDisclosureForUser; t is what nowISO() returns.  The created_at
\* column is written here only and read by no operation; it is left out.
getOrCreateDisclosureForUser(table, user_id, t) ==
  IF \E d \in DOMAIN table : table[d].user_id = user_id
    THEN LET d == CHOOSE d \in DOMAIN table : table[d].user_id = user_id
         IN [table |-> table, record |-> deserializeDisclosure(d, table[d])]
    ELSE LET id == Cardinality(DOMAIN table) + 1
             row == [user_id |-> user_id, draft_json |-> NullJson, draft_saved_at |-> NullTime,
                     history_json |-> <<>>, last_submitted_at |-> NullTime,
                     updated_at |-> t]
         IN [table |-> table @@ (id :> row),
             record |-> [null |-> FALSE, id |-> id, user_id |-> user_id, draft |-> NullDraft,
                         history |-> <<>>, last_submitted_at |-> NullTime,
                         updated_at |-> t]]

\* saveDraft writing the document only when the record has no draft yet
saveDraft_KeepsDraft(table, disclosure_id, document, savedAt, t) ==
  LET timestamp == IF savedAt = NullTime THEN t ELSE savedAt
      updated == IF disclosure_id \in DOMAIN table
                   THEN [table EXCEPT ![disclosure_id].draft_json =
                                          IF @.null
                                            THEN [null |-> FALSE, text |-> DocStringify(document)]
                                            ELSE @,
                                      ![disclosure_id].draft_saved_at = timestamp,
                                      ![disclosure_id].updated_at = timestamp]
                   ELSE table
  IN [table |-> updated, record |-> getDisclosure(updated, disclosure_id)]

\* saveDraft with an UPDATE that has no WHERE clause
saveDraft_EveryRow(table, disclosure_id, document, savedAt, t) ==
  LET timestamp == IF savedAt = NullTime THEN t ELSE savedAt
      updated == IF disclosure_id \in DOMAIN table
                   THEN [d \in DOMAIN table |->
                           [table[d] EXCEPT !.draft_json =
                                               [null |-> FALSE, text |-> DocStringify(document)],
                                            !.draft_saved_at = timestamp,
                                            !.updated_at = timestamp]]
                   ELSE table
  IN [table |-> updated, record |-> getDisclosure(updated, disclosure_id)]

\* saveDraft(disclosure_id, document, savedAt?); t is what nowISO() returns
saveDraft(table, disclosure_id, document, savedAt, t) ==
  LET timestamp == IF savedAt = NullTime THEN t ELSE savedAt
      updated == IF disclosure_id \in DOMAIN table
                   THEN [table EXCEPT ![disclosure_id].draft_json =
                                          [null |-> FALSE, text |-> DocStringify(document)],
                                      ![disclosure_id].draft_saved_at = timestamp,
                                      ![disclosure_id].updated_at = timestamp]
                   ELSE table
  IN [table |-> updated, record |-> getDisclosure(updated, disclosure_id)]

\* submitDraft storing the new snapshot in place of the history
submitDraft_ReplacesHistory(table, disclosure_id, submittedAt, t, rid) ==
  LET record == getDisclosure(table, disclosure_id)
  IN IF record.null \/ record.draft.null
       THEN [table |-> table, record |-> record]
       ELSE LET at == IF submittedAt = NullTime THEN t ELSE submittedAt
                snapshot == [id |-> rid, submittedAt |-> at,
                             document |-> record.draft.document]
                history == <<snapshot>>
                updated == [table EXCEPT ![disclosure_id].history_json = HistoryStringify(history),
                                         ![disclosure_id].last_submitted_at = at,
                                         ![disclosure_id].updated_at = at]
            IN [table |-> updated, record |-> getDisclosure(updated, disclosure_id)]

\* submitDraft without the test for a draft
submitDraft_WithoutDraftTest(table, disclosure_id, submittedAt, t, rid) ==
  LET record == getDisclosure(table, disclosure_id)
  IN IF record.null
       THEN [table |-> table, record |-> record]
       ELSE LET at == IF submittedAt = NullTime THEN t ELSE submittedAt
                snapshot == [id |-> rid, submittedAt |-> at,
                             document |-> record.draft.document]
                history == Append(record.history, snapshot)
                updated == [table EXCEPT ![disclosure_id].history_json = HistoryStringify(history),
                                         ![disclosure_id].last_submitted_at = at,
                                         ![disclosure_id].updated_at = at]
            IN [table |-> updated, record |-> getDisclosure(updated, disclosure_id)]

\* submitDraft(disclosure_id, submittedAt?); t is what nowISO() returns, rid
\* what randomId() returns
\* a variant of submitDraft that clears the draft it has submitted
submitDraft_ClearsDraft(table, disclosure_id, submittedAt, t, rid) ==
  LET record == getDisclosure(table, disclosure_id)
  IN IF record.null \/ record.draft.null
       THEN [table |-> table, record |-> record]
       ELSE LET at == IF submittedAt = NullTime THEN t ELSE submittedAt
                snapshot == [id |-> rid, submittedAt |-> at,
                             document |-> record.draft.document]
                history == Append(record.history, snapshot)
                updated == [table EXCEPT ![disclosure_id].history_json = HistoryStringify(history),
                                         ![disclosure_id].last_submitted_at = at,
                                         ![disclosure_id].updated_at = at,
                                         ![disclosure_id].draft_json = NullJson,
                                         ![disclosure_id].draft_saved_at = NullTime]
            IN [table |-> updated, record |-> getDisclosure(updated, disclosure_id)]

submitDraft(table, disclosure_id, submittedAt, t, rid) ==
  LET record == getDisclosure(table, disclosure_id)
  IN IF record.null \/ record.draft.null
       THEN [table |-> table, record |-> record]
       ELSE LET at == IF submittedAt = NullTime THEN t ELSE submittedAt
                snapshot == [id |-> rid, submittedAt |-> at,
                             document |-> record.draft.document]
                history == Append(record.history, snapshot)
                updated == [table EXCEPT ![disclosure_id].history_json = HistoryStringify(history),
                                         ![disclosure_id].last_submitted_at = at,
                                         ![disclosure_id].updated_at = at]
            IN [table |-> updated, record |-> getDisclosure(updated, disclosure_id)]

\* hasAnyEntry(document)
hasAnyEntry(document) ==
  \/ Len(document["roles"]) > 0
  \/ Len(document["financial"]) > 0
  \/ Len(document["ownerships"]) > 0
  \/ Len(document["gifts"]) > 0

\* the disclosure columns of a user without a disclosures row (LEFT JOIN)
NullRow ==
  [user_id |-> 0, draft_json |-> NullJson, draft_saved_at |-> NullTime,
   history_json |-> <<>>, last_submitted_at |-> NullTime, updated_at |-> NullTime]

\* the status with 'Updated' also for a draft saved at the submission time
statusOf_NotStrict(row) ==
  LET draftDoc == IF ~row.draft_json.null
                    THEN [null |-> FALSE, document |-> DocParse(row.draft_json.text)]
                    ELSE [null |-> TRUE, document |-> emptyDocument]
      draftSavedAt == row.draft_saved_at
      history == HistoryParse(row.history_json)
      lastSubmitted == row.last_submitted_at
      s1 == IF Len(history) = 0 /\ ~draftDoc.null /\ hasAnyEntry(draftDoc.document)
              THEN "Draft" ELSE "Not Started"
      s2 == IF Len(history) > 0 THEN "Submitted" ELSE s1
  IN IF /\ Len(history) > 0
        /\ ~draftDoc.null
        /\ draftSavedAt # NullTime
        /\ (lastSubmitted = NullTime \/ draftSavedAt >= lastSubmitted)
       THEN "Updated" ELSE s2

\* the body of rows.map in listUsersWithStatus: the status of one joined row
statusOf(row) ==
  LET draftDoc == IF ~row.draft_json.null
                    THEN [null |-> FALSE, document |-> DocParse(row.draft_json.text)]
                    ELSE [null |-> TRUE, document |-> emptyDocument]
      draftSavedAt == row.draft_saved_at
      history == HistoryParse(row.history_json)
      lastSubmitted == row.last_submitted_at
      s1 == IF Len(history) = 0 /\ ~draftDoc.null /\ hasAnyEntry(draftDoc.document)
              THEN "Draft" ELSE "Not Started"
      s2 == IF Len(history) > 0 THEN "Submitted" ELSE s1
  IN IF /\ Len(history) > 0
        /\ ~draftDoc.null
        /\ draftSavedAt # NullTime
        /\ (lastSubmitted = NullTime \/ draftSavedAt > lastSubmitted)
       THEN "Updated" ELSE s2

\* users LEFT JOIN disclosures ON d.user_id = u.id; every user is a discloser
joinedRow(table, u) ==
  IF \E d \in DOMAIN table : table[d].user_id = u
    THEN table[CHOOSE d \in DOMAIN table : table[d].user_id = u]
    ELSE NullRow

\* listUsersWithStatus(): per user the status and last_updated_ts
listUsersWithStatus(table) ==
  [u \in Users |->
     LET row == joinedRow(table, u)
     IN [status |-> statusOf(row),
         last_updated_ts |-> IF row.draft_saved_at # NullTime
                               THEN row.draft_saved_at ELSE row.last_submitted_at]]

(***************************************************************************)
(* src/src/sanitize.ts, src/src/db.ts (169-199), src/src/server.ts         *)
(* (210-254): what the portal publishes.  An entry of a document is        *)
(* modelled by its entity name.                                            *)
(***************************************************************************)
\* getDisclosureByUser(user_id)
getDisclosureByUser(table, user_id) ==
  IF \E d \in DOMAIN table : table[d].user_id = user_id
    THEN LET d == CHOOSE d \in DOMAIN table : table[d].user_id = user_id
         IN deserializeDisclosure(d, table[d])
    ELSE NullRecord

NullDocument == [null |-> TRUE, document |-> emptyDocument]

\* getLatestDocument: the last snapshot's document, else the draft's, else null
getLatestDocument(record) ==
  IF record.null THEN NullDocument
  ELSE IF Len(record.history) > 0
    THEN [null |-> FALSE, document |-> record.history[Len(record.history)].document]
  ELSE IF ~record.draft.null
    THEN [null |-> FALSE, document |-> record.draft.document]
  ELSE NullDocument

\* summarizeDocument(doc)
summarizeDocument(doc) ==
  [roles |-> Len(doc["roles"]), financial |-> Len(doc["financial"]),
   ownerships |-> Len(doc["ownerships"]), gifts |-> Len(doc["gifts"])]

NoPublicRow ==
  [present |-> FALSE, primary_employer |-> EmptyStr, paid_governance_roles |-> <<>>,
   ownership_companies_1pct_plus |-> <<>>, ultimate_funders_or_sector_topic |-> <<>>,
   last_updated |-> NullTime]

\* buildPublicRows(db): per user the row of the CSV, absent for a user the
\* loop skips
buildPublicRows(table) ==
  [u \in Users |->
     LET record == getDisclosureByUser(table, u)
         latestDoc == getLatestDocument(record)
         employments == latestDoc.document["roles"]
     IN IF record.null \/ latestDoc.null THEN NoPublicRow
        ELSE [present |-> TRUE,
              primary_employer |-> IF Len(employments) > 0 THEN employments[1] ELSE EmptyStr,
              paid_governance_roles |-> employments,
              ownership_companies_1pct_plus |-> latestDoc.document["ownerships"],
              ultimate_funders_or_sector_topic |-> latestDoc.document["financial"],
              last_updated |-> IF record.last_submitted_at # NullTime
                                 THEN record.last_submitted_at
                               ELSE IF ~record.draft.null /\ record.draft.savedAt # NullTime
                                 THEN record.draft.savedAt
                               ELSE record.updated_at]]

\* listPublicProfiles(): per discloser the counts of the latest snapshot
listPublicProfiles(table) ==
  [u \in Users |->
     LET row == joinedRow(table, u)
         history == HistoryParse(row.history_json)
     IN [last_submitted_at |-> row.last_submitted_at,
         counts |-> IF Len(history) > 0
                      THEN summarizeDocument(history[Len(history)].document)
                      ELSE summarizeDocument(emptyDocument),
         history_count |-> Len(history)]]

\* app.get('/api/public/disclosures/:hl7Id') for a known user
publicDisclosure(table, u) ==
  LET record == getDisclosureByUser(table, u)
  IN IF record.null \/ Len(record.history) = 0
       THEN [latest |-> NullDocument, history |-> <<>>]
       ELSE [latest |-> [null |-> FALSE,
                         document |-> record.history[Len(record.history)].document],
             history |-> [i \in 1..Len(record.history) |->
                            [id |-> record.history[i].id,
                             submittedAt |-> record.history[i].submittedAt,
                             counts |-> summarizeDocument(record.history[i].document)]]]

Call(op, id, document, timestamp) ==
  [op |-> op, id |-> id, document |-> document, timestamp |-> timestamp]

NoCall == Call("none", 0, emptyDocument, NullTime)

\* the clock does not run backwards
Clock == now..MaxTime

NothingSaved == [saved |-> FALSE, document |-> emptyDocument, submitted |-> FALSE]

\* no DB call is in progress
Returned == call = NoCall

\* users are numbered in the order in which their records are created
GetOrCreate ==
  \E user_id \in Users, t \in Clock :
    LET r == getOrCreateDisclosureForUser(disclosures, user_id, t)
    IN /\ Returned
       /\ user_id <= Cardinality(DOMAIN disclosures) + 1
       /\ now' = t
       /\ call' = Call("getOrCreateDisclosureForUser", user_id, emptyDocument, NullTime)
       /\ disclosures' = r.table
       /\ ret' = r.record
       /\ UNCHANGED lastSaved
       /\ UNCHANGED <<fhirVars, restVars>>

SaveDraft ==
  \E disclosure_id \in Users, document \in Documents, savedAt \in {NullTime} \cup Times,
     t \in Clock :
    LET r == saveDraft(disclosures, disclosure_id, document, savedAt, t)
    IN /\ Returned
       /\ now' = t
       /\ call' = Call("saveDraft", disclosure_id, document, savedAt)
       /\ disclosures' = r.table
       /\ ret' = r.record
       /\ lastSaved' = IF disclosure_id \in DOMAIN disclosures
                         THEN [lastSaved EXCEPT ![disclosure_id] =
                                 [saved |-> TRUE, document |-> document,
                                  submitted |-> FALSE]]
                         ELSE lastSaved
       /\ UNCHANGED <<fhirVars, restVars>>

\* a submit that appends waits for the bounded pool of snapshot ids
SubmitDraft ==
  \E disclosure_id \in Users, submittedAt \in {NullTime} \cup Times, t \in Clock :
    /\ Returned
    /\ \E rid \in IF getDisclosure(disclosures, disclosure_id).draft.null
                    THEN {0} ELSE randomId(disclosures) :
         LET r == submitDraft(disclosures, disclosure_id, submittedAt, t, rid)
         IN /\ now' = t
            /\ call' = Call("submitDraft", disclosure_id, emptyDocument, submittedAt)
            /\ disclosures' = r.table
            /\ ret' = r.record
            /\ lastSaved' = IF r.table # disclosures
                              THEN [lastSaved EXCEPT ![disclosure_id].submitted = TRUE]
                              ELSE lastSaved
            /\ UNCHANGED <<fhirVars, restVars>>

\* the admin listing reads the table
ListUsersWithStatus ==
  /\ Returned
  /\ call' = Call("listUsersWithStatus", 0, emptyDocument, NullTime)
  /\ ret' = [null |-> FALSE, list |-> listUsersWithStatus(disclosures)]
  /\ UNCHANGED <<disclosures, now, lastSaved>>
  /\ UNCHANGED <<fhirVars, restVars>>

\* the call returns to its caller
Return ==
  /\ ~Returned
  /\ call' = NoCall
  /\ ret' = NullRecord
  /\ UNCHANGED <<disclosures, now, lastSaved>>
  /\ UNCHANGED <<fhirVars, restVars>>

(***************************************************************************)
(* src/src/auth.ts: verifyAuthorization calls that overlap.  Both variants *)
(* of the file are covered: the module-level cache (lines 13-36) and the   *)
(* per-issuer caches (lines 142-171), which differ in that the second      *)
(* deletes the cached promise when the resolution succeeds.  OIDC_ISSUER   *)
(* is one value per process and OIDC_JWKS_URI is not set, so the           *)
(* resolution goes through discoverJwksUri.                                *)
(***************************************************************************)
Calls == 1..MaxCalls

NotVerifying == [pc |-> "idle", header |-> [scheme |-> "none", token |-> NoToken], result |-> "none"]

\* resolveJwks up to its first await, with only the key-set cache consulted
resolveJwksBegin_NoPromiseCache(cached, promise) ==
  IF cached THEN "cached" ELSE "new"

\* resolveJwks up to its first await: the cached key set, the cached promise,
\* or a new promise whose body starts the discovery fetch
resolveJwksBegin(cached, promise) ==
  IF cached THEN "cached"
  ELSE IF promise # "null" THEN "shared"
  ELSE "new"

\* verifyAuthorization up to `await resolveJwks()`; a call without a bearer
\* token, or in mock mode, returns without awaiting
VerifyBegin ==
  \E c \in Calls, header \in Headers :
    /\ verifying[c].pc = "idle"
    /\ IF allowMock \/ parseBearer(header).null
         THEN /\ verifying' = [verifying EXCEPT ![c] =
                   [pc |-> "done", header |-> header,
                    result |-> verifyAuthorization(allowMock, remoteJwks, jwksInitPromise,
                                                   header, "none").result]]
              /\ UNCHANGED <<jwksInitPromise, fetches>>
         ELSE /\ verifying' = [verifying EXCEPT ![c] =
                   [pc |-> "awaiting", header |-> header, result |-> "none"]]
              /\ IF resolveJwksBegin(remoteJwks, jwksInitPromise) = "new"
                   THEN /\ fetches < MaxFetches
                        /\ fetches' = fetches + 1
                        /\ jwksInitPromise' = "pending"
                   ELSE UNCHANGED <<jwksInitPromise, fetches>>
    /\ UNCHANGED <<allowMock, remoteJwks, resources, req, resp, perIssuer, reachable>>
    /\ UNCHANGED nonAuthVars

\* the discovery fetch completes and the promise body runs to its end: the key
\* set is built and cached, or the body throws and the promise is rejected
DiscoveryResponds ==
  /\ jwksInitPromise = "pending"
  /\ IF reachable
       THEN /\ remoteJwks' = TRUE
            /\ jwksInitPromise' = IF perIssuer THEN "null" ELSE "resolved"
       ELSE /\ remoteJwks' = remoteJwks
            /\ jwksInitPromise' = "rejected"
  /\ UNCHANGED <<allowMock, resources, req, resp, perIssuer, verifying, fetches, reachable>>
  /\ UNCHANGED nonAuthVars

\* a call continues after its await: jwtVerify with the key set, or the
\* rejection of the promise thrown to the caller
VerifyResume ==
  \E c \in Calls :
    /\ verifying[c].pc = "awaiting"
    /\ remoteJwks \/ jwksInitPromise = "rejected"
    /\ verifying' = [verifying EXCEPT ![c] =
         [pc |-> "done", header |-> verifying[c].header,
          result |-> verifyAuthorization(allowMock, remoteJwks, jwksInitPromise,
                                         verifying[c].header, "none").result]]
    /\ UNCHANGED <<allowMock, remoteJwks, jwksInitPromise, resources, req, resp,
                   perIssuer, fetches, reachable>>
    /\ UNCHANGED nonAuthVars

\* the caller has taken the result
VerifyReturn ==
  \E c \in Calls :
    /\ verifying[c].pc = "done"
    /\ verifying' = [verifying EXCEPT ![c] = NotVerifying]
    /\ UNCHANGED <<allowMock, remoteJwks, jwksInitPromise, resources, req, resp,
                   perIssuer, fetches, reachable>>
    /\ UNCHANGED nonAuthVars

\* the issuer becomes reachable or unreachable
IssuerChanges ==
  /\ reachable' = ~reachable
  /\ UNCHANGED <<allowMock, remoteJwks, jwksInitPromise, resources, req, resp,
                 perIssuer, verifying, fetches>>
  /\ UNCHANGED nonAuthVars

\* no verifyAuthorization call overlaps another (the requests of Spec run one
\* at a time)
AuthAbsent ==
  /\ perIssuer = FALSE
  /\ verifying = [c \in Calls |-> NotVerifying]
  /\ fetches = 0
  /\ reachable = TRUE


(***************************************************************************)
(* src/src/server.ts (30-69, 131-172), src/src/db.ts (96-113): sessions of *)
(* the portal server.  Every handler runs to its end without awaiting.     *)
(***************************************************************************)
Sids == 1..MaxSessions

\* a request without a sid cookie
NoSid == 0

\* the lifetime finalizeLogin gives a session (7 days), in clock units
SessionTtl == 1

\* users whose is_admin column is 1
Admins == {1}

\* createSession(user_id, session_id, expires_at_iso)
createSession(table, user_id, session_id, expires_at) ==
  table @@ (session_id :> [user_id |-> user_id, expires_at |-> expires_at])

\* getSession(session_id): user_id 0 where the code returns undefined
getSession(table, session_id) ==
  IF session_id \in DOMAIN table
    THEN [found |-> TRUE, user_id |-> table[session_id].user_id,
          expires_at |-> table[session_id].expires_at]
    ELSE [found |-> FALSE, user_id |-> 0, expires_at |-> NullTime]

\* deleteSession(session_id)
deleteSession(table, session_id) ==
  [s \in DOMAIN table \ {session_id} |-> table[s]]

\* requireAuth(ctx): the user of the session the sid cookie names, 0 for null
requireAuth(table, sid) ==
  IF sid = NoSid THEN 0
  ELSE LET s == getSession(table, sid)
       IN IF ~s.found THEN 0 ELSE s.user_id

\* requireAdmin(ctx)
requireAdmin(table, sid) ==
  LET u == requireAuth(table, sid)
  IN IF u = 0 \/ u \notin Admins THEN 0 ELSE u

ServedRequest(route, sid, status, user, at) ==
  [route |-> route, sid |-> sid, status |-> status, user |-> user, at |-> at]

NothingServed == ServedRequest("none", NoSid, 0, 0, NullTime)

\* the routes that call requireAuth, and those that call requireAdmin
UserRoutes == {"/api/disclosure"}
AdminRoutes == {"/api/admin/disclosers"}

\* finalizeLogin(db, cookieJar, set, user), reached from /auth/login (mock
\* mode) and /auth/callback: randomId(24) yields a sid never issued before
Login ==
  \E user \in Users, sid \in Sids \ (DOMAIN sessions \cup loggedOut) :
    /\ sessions' = createSession(sessions, user, sid, now + SessionTtl)
    /\ served' = ServedRequest("/auth/login", sid, 302, user, now)
    /\ UNCHANGED <<loggedOut, now>>
    /\ UNCHANGED nonSessionVars

\* app.get('/auth/logout')
Logout ==
  \E sid \in Sids \cup {NoSid} :
    /\ sessions' = IF sid # NoSid THEN deleteSession(sessions, sid) ELSE sessions
    /\ loggedOut' = IF sid \in DOMAIN sessions THEN loggedOut \cup {sid} ELSE loggedOut
    /\ served' = ServedRequest("/auth/logout", sid, 204, 0, now)
    /\ UNCHANGED now
    /\ UNCHANGED nonSessionVars

\* a route guarded by requireAuth (app.get('/api/disclosure') stands for them);
\* the disclosure it reads is left to the store's own actions
UserRequest ==
  \E route \in UserRoutes, sid \in Sids \cup {NoSid} :
    LET user == requireAuth(sessions, sid)
    IN /\ served' = ServedRequest(route, sid, IF user = 0 THEN 401 ELSE 200, user, now)
       /\ UNCHANGED <<sessions, loggedOut, now>>
       /\ UNCHANGED nonSessionVars

\* a route guarded by requireAdmin
AdminRequest ==
  \E route \in AdminRoutes, sid \in Sids \cup {NoSid} :
    LET admin == requireAdmin(sessions, sid)
    IN /\ served' = ServedRequest(route, sid, IF admin = 0 THEN 403 ELSE 200, admin, now)
       /\ UNCHANGED <<sessions, loggedOut, now>>
       /\ UNCHANGED nonSessionVars

\* the clock advances
TimePasses ==
  /\ now < MaxTime
  /\ now' = now + 1
  /\ UNCHANGED <<sessions, loggedOut, served>>
  /\ UNCHANGED nonSessionVars

\* no session has been created
SessionsAbsent ==
  /\ sessions = <<>>
  /\ loggedOut = {}
  /\ served = NothingServed


(***************************************************************************)
(* src/unnamed/part_001 (123-202), src/unnamed/part_006 (81-88): the       *)
(* authorization redirect of the single-page app                           *)
(***************************************************************************)
Null == "null"

\* authorization codes (randomUUID at the authorization endpoint)
Codes == {"c" \o ToString(i) : i \in 1..MaxCodes}

\* values of pkce.state
PkceStates == {"s1", "s2"}

NoQuery == [code |-> Null, state |-> Null]

NotRedirecting == [pc |-> "idle", code |-> Null, ok |-> FALSE, result |-> "none"]

\* a page load starts a new script context: no call of the old page goes on
NoCalls == [c \in Calls |-> NotRedirecting]

\* handleRedirect up to `await getMetadata()`: null without code or state, the
\* stored tokens for the processed code, an exception for a missing PKCE entry
\* or another state, else the exchange
handleRedirectBegin(store, loc) ==
  IF loc.code = Null \/ loc.state = Null THEN "null"
  ELSE IF store.processed = loc.code THEN "tokens"
  ELSE IF store.pkce = Null THEN "throw"
  ELSE IF store.pkce # loc.state THEN "throw"
  ELSE "exchange"

\* startLogin: stores a new PKCE pair, forgets the processed code and leaves
\* the page for the authorization endpoint
StartLogin ==
  \E state \in PkceStates :
    /\ storage' = [storage EXCEPT !.pkce = state, !.processed = Null]
    /\ query' = NoQuery
    /\ redirecting' = NoCalls
    /\ UNCHANGED tokenEndpoint
    /\ UNCHANGED <<fhirVars, portalVars, authVars, sessionVars, formVars>>

\* the authorization endpoint registers a new code and redirects back with
\* the state it was given
Authorize ==
  \E code \in Codes \ tokenEndpoint.issued :
    /\ storage.pkce # Null
    /\ query = NoQuery
    /\ tokenEndpoint' = [tokenEndpoint EXCEPT !.authCodes = @ \cup {code},
                                              !.issued = @ \cup {code}]
    /\ query' = [code |-> code, state |-> storage.pkce]
    /\ redirecting' = NoCalls
    /\ UNCHANGED storage
    /\ UNCHANGED <<fhirVars, portalVars, authVars, sessionVars, formVars>>

\* the page is opened with a query string that did not come from the login
\* in progress
Arrive ==
  \E code \in Codes \cup {Null}, state \in PkceStates \cup {Null} :
    /\ query' = [code |-> code, state |-> state]
    /\ redirecting' = NoCalls
    /\ UNCHANGED <<storage, tokenEndpoint>>
    /\ UNCHANGED <<fhirVars, portalVars, authVars, sessionVars, formVars>>

\* handleRedirect from its start to its first await or its return
HandleRedirectBegin ==
  \E c \in Calls :
    LET b == handleRedirectBegin(storage, query)
    IN /\ redirecting[c].pc = "idle"
       /\ redirecting' = [redirecting EXCEPT ![c] =
            IF b = "exchange"
              THEN [pc |-> "metadata", code |-> query.code, ok |-> FALSE, result |-> "none"]
              ELSE [pc |-> "done", code |-> query.code, ok |-> FALSE,
                    result |-> IF b = "tokens" THEN storage.tokens ELSE b]]
       /\ UNCHANGED <<storage, query, tokenEndpoint>>
       /\ UNCHANGED <<fhirVars, portalVars, authVars, sessionVars, formVars>>

\* exchangeAuthCode posts the code; the token endpoint redeems a code it
\* holds and deletes it (single use), and refuses any other
TokenRequest ==
  \E c \in Calls :
    LET code == redirecting[c].code
        held == code \in tokenEndpoint.authCodes
    IN /\ redirecting[c].pc = "metadata"
       /\ redirecting' = [redirecting EXCEPT ![c].pc = "fetching", ![c].ok = held]
       /\ tokenEndpoint' = [tokenEndpoint EXCEPT !.authCodes = @ \ {code},
                                                 !.redeemed = IF held THEN @ \cup {code} ELSE @]
       /\ UNCHANGED <<storage, query>>
       /\ UNCHANGED <<fhirVars, portalVars, authVars, sessionVars, formVars>>

\* the token response arrives: the tokens are stored, the PKCE entry removed,
\* the code recorded as processed and the query string cleaned; a refusal
\* is thrown
TokenResponse ==
  \E c \in Calls :
    /\ redirecting[c].pc = "fetching"
    /\ IF redirecting[c].ok
         THEN /\ storage' = [pkce |-> Null, processed |-> redirecting[c].code,
                             tokens |-> redirecting[c].code]
              /\ query' = NoQuery
              /\ redirecting' = [redirecting EXCEPT ![c].pc = "done",
                                                    ![c].result = redirecting[c].code]
         ELSE /\ redirecting' = [redirecting EXCEPT ![c].pc = "done", ![c].result = "throw"]
              /\ UNCHANGED <<storage, query>>
    /\ UNCHANGED tokenEndpoint
    /\ UNCHANGED <<fhirVars, portalVars, authVars, sessionVars, formVars>>

\* the caller has taken the result
RedirectReturn ==
  \E c \in Calls :
    /\ redirecting[c].pc = "done"
    /\ redirecting' = [redirecting EXCEPT ![c] = NotRedirecting]
    /\ UNCHANGED <<storage, query, tokenEndpoint>>
    /\ UNCHANGED <<fhirVars, portalVars, authVars, sessionVars, formVars>>

\* a browser tab that has not started a login
RedirectAbsent ==
  /\ storage = [pkce |-> Null, processed |-> Null, tokens |-> Null]
  /\ query = NoQuery
  /\ redirecting = NoCalls
  /\ tokenEndpoint = [authCodes |-> {}, issued |-> {}, redeemed |-> {}]

(***************************************************************************)
(* src/frontend/src/main.tsx: financialInterestsStore over the FHIR        *)
(* backend (FhirSubmissionBackend) and the QuestionnaireResponse routes    *)
(* of part_009.  One user, one questionnaire; the document itself is left  *)
(* out, a payload is its status and its authored stamp.                    *)
(***************************************************************************)
nonFormVars == <<fhirVars, portalVars, authVars, sessionVars, redirectVars>>

ResponseIds == 1..MaxResponses
\* responseId: null
NoResponseId == 0
Saves == 1..MaxSaves

AbsentResponse == [status |-> "absent", authored |-> 0]
NotSaving == [pc |-> "idle", responseId |-> NoResponseId, authored |-> 0, saved |-> NoResponseId]
NotSubmitting == [pc |-> "idle", responseId |-> NoResponseId, authored |-> 0, saved |-> NoResponseId]

\* documentToQuestionnaireResponse: the payload carries the status asked for
\* and authored: new Date()
documentToQuestionnaireResponse(status, date) == [status |-> status, authored |-> date]

\* store.create behind POST /fhir/QuestionnaireResponse: a fresh id
createResponse(table) == CHOOSE id \in ResponseIds : table[id].status = "absent" /\ \A other \in ResponseIds : table[other].status = "absent" => id <= other

\* upsertQuestionnaireResponse and the route it reaches: PUT to existingId
\* replaces whatever is stored there, POST creates; the id of the answer
upsertQuestionnaireResponse(table, payload, existingId) ==
  LET id == IF existingId # NoResponseId THEN existingId ELSE createResponse(table)
  IN  [table |-> [table EXCEPT ![id] = payload], id |-> id]

\* the upsert can be served: a POST needs an id the store has not used
Servable(table, existingId) == existingId # NoResponseId \/ \E id \in ResponseIds : table[id].status = "absent"

\* loadExisting: the in-progress response authored last, or none
LatestDraft(table) ==
  LET drafts == {id \in ResponseIds : table[id].status = "in-progress"}
  IN  IF drafts = {} THEN NoResponseId
      ELSE CHOOSE id \in drafts : \A other \in drafts : table[other].authored < table[id].authored \/ (table[other].authored = table[id].authored /\ id <= other)

\* resetAutoSaveState: the timer is cleared
resetAutoSaveState(f) == [f EXCEPT !.autoSave = FALSE]

\* updateDocument / setDocument: queueAutoSave arms the 1500 ms timer,
\* whatever the status of the store
UpdateDocument ==
  /\ form.status \in {"ready", "submitting"}
  /\ ~form.autoSave
  /\ form' = [form EXCEPT !.autoSave = TRUE]
  /\ UNCHANGED <<saving, submitting, responses, clock>>
  /\ UNCHANGED nonFormVars

\* saveDraft up to the fetch: called by the timer (silent) or by the user;
\* the timer is cleared, and backend.saveDraft(..., get().responseId) builds
\* the in-progress payload and sends it.  The awaits before the fetch
\* (getSubmissionBackend, getAppConfig) resolve from what initialize() has
\* cached, so no event or answer comes in between.
SaveDraftBegin ==
  \E c \in Saves, timer \in BOOLEAN :
    /\ form.status \in {"ready", "submitting"}
    /\ saving[c].pc = "idle"
    /\ timer => form.autoSave
    /\ clock < MaxAuthored
    /\ form' = resetAutoSaveState(form)
    /\ saving' = [saving EXCEPT ![c] = [pc |-> "sent", responseId |-> form.responseId, authored |-> clock, saved |-> NoResponseId]]
    /\ clock' = clock + 1
    /\ UNCHANGED <<submitting, responses>>
    /\ UNCHANGED nonFormVars

\* the server handles the request of a saveDraft
SaveDraftServed ==
  \E c \in Saves :
    /\ saving[c].pc = "sent"
    /\ Servable(responses, saving[c].responseId)
    /\ LET r == upsertQuestionnaireResponse(responses, documentToQuestionnaireResponse("in-progress", saving[c].authored), saving[c].responseId)
       IN  /\ responses' = r.table
           /\ saving' = [saving EXCEPT ![c].pc = "answered", ![c].saved = r.id]
    /\ UNCHANGED <<form, submitting, clock>>
    /\ UNCHANGED nonFormVars

\* saveDraft after the answer: set({ responseId: saved.id })
SaveDraftReturn ==
  \E c \in Saves :
    /\ saving[c].pc = "answered"
    /\ form' = [form EXCEPT !.responseId = saving[c].saved]
    /\ saving' = [saving EXCEPT ![c] = NotSaving]
    /\ UNCHANGED <<submitting, responses, clock>>
    /\ UNCHANGED nonFormVars

\* submit up to the fetch: the timer is cleared, the status becomes
\* 'submitting' (the submit button is disabled meanwhile), and
\* backend.submit(..., get().responseId) builds the completed payload and
\* sends it
SubmitBegin ==
  /\ form.status = "ready"
  /\ submitting.pc = "idle"
  /\ clock < MaxAuthored
  /\ form' = [resetAutoSaveState(form) EXCEPT !.status = "submitting"]
  /\ submitting' = [pc |-> "sent", responseId |-> form.responseId, authored |-> clock, saved |-> NoResponseId]
  /\ clock' = clock + 1
  /\ UNCHANGED <<saving, responses>>
  /\ UNCHANGED nonFormVars

\* the server handles the request of submit
SubmitServed ==
  /\ submitting.pc = "sent"
  /\ Servable(responses, submitting.responseId)
  /\ LET r == upsertQuestionnaireResponse(responses, documentToQuestionnaireResponse("completed", submitting.authored), submitting.responseId)
     IN  /\ responses' = r.table
         /\ submitting' = [submitting EXCEPT !.pc = "answered", !.saved = r.id]
  /\ UNCHANGED <<form, saving, clock>>
  /\ UNCHANGED nonFormVars

\* submit after the answer: set({ responseId: saved.id }), then
\* refreshHistory begins
SubmitReturn ==
  /\ submitting.pc = "answered"
  /\ form' = [form EXCEPT !.responseId = submitting.saved]
  /\ submitting' = [submitting EXCEPT !.pc = "refresh"]
  /\ UNCHANGED <<saving, responses, clock>>
  /\ UNCHANGED nonFormVars

\* refreshHistory, loadExisting: the server answers the search for drafts;
\* without a draft, createDraftQuestionnaireResponse builds a payload
LoadExistingSearch ==
  /\ submitting.pc = "refresh"
  /\ LET draft == LatestDraft(responses)
     IN  IF draft # NoResponseId
         THEN /\ submitting' = [submitting EXCEPT !.pc = "loaded", !.saved = draft]
              /\ UNCHANGED clock
         ELSE /\ clock < MaxAuthored
              /\ submitting' = [submitting EXCEPT !.pc = "creating", !.authored = clock]
              /\ clock' = clock + 1
  /\ UNCHANGED <<form, saving, responses>>
  /\ UNCHANGED nonFormVars

\* the server handles the POST of createDraftQuestionnaireResponse
CreateDraftServed ==
  /\ submitting.pc = "creating"
  /\ Servable(responses, NoResponseId)
  /\ LET r == upsertQuestionnaireResponse(responses, documentToQuestionnaireResponse("in-progress", submitting.authored), NoResponseId)
     IN  /\ responses' = r.table
         /\ submitting' = [submitting EXCEPT !.pc = "loaded", !.saved = r.id]
  /\ UNCHANGED <<form, saving, clock>>
  /\ UNCHANGED nonFormVars

\* refreshHistory sets responseId: refreshed.responseId and submit ends
\* with status 'ready'
RefreshReturn ==
  /\ submitting.pc = "loaded"
  /\ form' = [form EXCEPT !.responseId = submitting.saved, !.status = "ready"]
  /\ submitting' = NotSubmitting
  /\ UNCHANGED <<saving, responses, clock>>
  /\ UNCHANGED nonFormVars

\* a tab that has not loaded the form
FormAbsent ==
  /\ form = [responseId |-> NoResponseId, autoSave |-> FALSE, status |-> "idle"]
  /\ saving = [c \in Saves |-> NotSaving]
  /\ submitting = NotSubmitting
  /\ responses = [id \in ResponseIds |-> AbsentResponse]
  /\ clock = 0

RestAbsent == AuthAbsent /\ SessionsAbsent /\ RedirectAbsent /\ FormAbsent

\* the FHIR facade before its first request
InitFhir ==
  /\ allowMock \in BOOLEAN
  /\ remoteJwks = FALSE
  /\ jwksInitPromise = "null"
  /\ \E gen \in Ids : resources = create(<<>>, canonicalQuestionnaire, gen).table
  /\ req = NoRequest
  /\ resp = NoResponse

\* the portal store after DB.init() on a new database
InitPortal ==
  /\ disclosures = <<>>
  /\ now = 1
  /\ call = NoCall
  /\ ret = NullRecord
  /\ lastSaved = [d \in Users |-> NothingSaved]

\* server start (lines 19-22): store.init(), then seedCanonicalQuestionnaire
\* creates the questionnaire in the empty table
Init == InitFhir /\ InitPortal /\ RestAbsent

Next == Get \/ Post \/ Put \/ Deliver

Spec == Init /\ [][Next]_vars

\* the facade with restarts of the server between requests
NextServer == Next \/ Restart

SpecServer == Init /\ [][NextServer]_vars

\* the portal store under any sequence of DB calls
NextPortal == GetOrCreate \/ SaveDraft \/ SubmitDraft \/ ListUsersWithStatus \/ Return

\* the portal server (src/src/server.ts) runs without the FHIR facade
FhirAbsent ==
  /\ allowMock = FALSE
  /\ remoteJwks = FALSE
  /\ jwksInitPromise = "null"
  /\ resources = <<>>
  /\ req = NoRequest
  /\ resp = NoResponse

\* the portal store after DB.init, on its own
InitStore == InitPortal /\ FhirAbsent /\ RestAbsent

SpecPortal == InitStore /\ [][NextPortal]_vars

\* the FHIR facade in mock mode over a table of stored resources
InitSearch ==
  /\ allowMock = TRUE
  /\ remoteJwks = FALSE
  /\ jwksInitPromise = "null"
  /\ resources \in SearchTables
  /\ req = NoRequest
  /\ resp = NoResponse
  /\ InitPortal
  /\ RestAbsent

NextSearch == Search \/ Deliver

SpecSearch == InitSearch /\ [][NextSearch]_vars

\* the process after loading auth.ts, in either variant; the second variant
\* has no mock mode
InitAuth ==
  /\ perIssuer \in BOOLEAN
  /\ allowMock \in IF perIssuer THEN {FALSE} ELSE BOOLEAN
  /\ remoteJwks = FALSE
  /\ jwksInitPromise = "null"
  /\ verifying = [c \in Calls |-> NotVerifying]
  /\ fetches = 0
  /\ reachable \in BOOLEAN
  /\ resources = <<>>
  /\ req = NoRequest
  /\ resp = NoResponse
  /\ InitPortal
  /\ SessionsAbsent
  /\ RedirectAbsent
  /\ FormAbsent

NextAuth == VerifyBegin \/ DiscoveryResponds \/ VerifyResume \/ VerifyReturn \/ IssuerChanges

SpecAuth == InitAuth /\ [][NextAuth]_vars

\* the portal server after start, before the first login
InitSession == InitPortal /\ FhirAbsent /\ AuthAbsent /\ SessionsAbsent /\ RedirectAbsent /\ FormAbsent

NextSession == Login \/ Logout \/ UserRequest \/ AdminRequest \/ TimePasses

SpecSession == InitSession /\ [][NextSession]_vars

\* the single-page app in a new browser tab
InitRedirect == InitPortal /\ FhirAbsent /\ AuthAbsent /\ SessionsAbsent /\ RedirectAbsent /\ FormAbsent

NextRedirect ==
  \/ StartLogin \/ Authorize \/ Arrive
  \/ HandleRedirectBegin \/ TokenRequest \/ TokenResponse \/ RedirectReturn

SpecRedirect == InitRedirect /\ [][NextRedirect]_vars

\* the form store after initialize() for a user without responses:
\* loadExisting has created the draft and the status is 'ready'
InitForm ==
  /\ form = [responseId |-> 1, autoSave |-> FALSE, status |-> "ready"]
  /\ saving = [c \in Saves |-> NotSaving]
  /\ submitting = NotSubmitting
  /\ responses = [id \in ResponseIds |-> IF id = 1 THEN documentToQuestionnaireResponse("in-progress", 0) ELSE AbsentResponse]
  /\ clock = 1
  /\ InitPortal
  /\ FhirAbsent
  /\ AuthAbsent
  /\ SessionsAbsent
  /\ RedirectAbsent

NextForm ==
  \/ UpdateDocument
  \/ SaveDraftBegin \/ SaveDraftServed \/ SaveDraftReturn
  \/ SubmitBegin \/ SubmitServed \/ SubmitReturn
  \/ LoadExistingSearch \/ CreateDraftServed \/ RefreshReturn

SpecForm == InitForm /\ [][NextForm]_vars



(***************************************************************************)
(* Properties of the FHIR facade                                           *)
(***************************************************************************)
\* what verifyAuthorization answers for a header once the key set is available
Caller(header) == verifyAuthorization(allowMock, TRUE, "resolved", header, "none")

\* the key set was available to the request handled last
KeysAvailable == allowMock \/ remoteJwks

\* the request handled last carried a token that was verified
Verified == Caller(req.header).result = "auth" /\ KeysAvailable

\* a body that passes every check of POST and PUT for the type
ValidBody(type, body) ==
  /\ body.kind = "object"
  /\ body.obj["resourceType"] = type
  /\ type = "QuestionnaireResponse" =>
       ~Falsy(body.obj["questionnaire"]) /\ ~Falsy(body.obj["status"])

\* the token is refused: it does not decode (mock mode), or jwtVerify rejects
\* it or it names no subject
TokenRejected(token) ==
  IF allowMock THEN ~token.decodes ELSE ~token.verifies \/ Falsy(token.sub)

C2_PutThenGet ==
  (req.method = "PUT" /\ resp.status \in {200, 201}) =>
    /\ resources[req.id] = resp.json
    /\ \A h \in Headers :
         Caller(h).result = "auth" =>
           GetResponse(resources, req.type, req.id, Caller(h))
             = Response(200, Undef, resp.json, Undef)

\* a PUT that replaced an existing resource
C2_Witness ==
  /\ req.method = "PUT"
  /\ resp.status = 200
  /\ req.body.obj["status"] = "in-progress"
  /\ <<"status", "in-progress">> \in resources[req.id]

\* C3: a verified POST of a valid body without id answers 201 with a
\* non-empty id that no stored resource used, stores the returned resource
\* under that id and nothing else, and sets Location to /fhir/{type}/{id},
\* where a GET finds the created resource.
C3_PostGeneratesId ==
  [][(/\ req = NoRequest
      /\ req'.method = "POST"
      /\ req'.type \in allowedResourceTypes
      /\ Caller(req'.header).result = "auth"
      /\ allowMock \/ remoteJwks'
      /\ ValidBody(req'.type, req'.body)
      /\ Falsy(req'.body.obj["id"]))
     => /\ resp'.status = 201
        /\ ~Falsy(JSONparse(resp'.json)["id"])
        /\ JSONparse(resp'.json)["id"] \notin DOMAIN resources
        /\ resources' = resources @@ (JSONparse(resp'.json)["id"] :> resp'.json)
        /\ resp'.location = LocationOf(req'.type, JSONparse(resp'.json)["id"])
        /\ GetResponse(resources', req'.type, JSONparse(resp'.json)["id"], Caller(req'.header))
             = Response(200, Undef, resp'.json, Undef)]_vars

\* a POST without id that was answered 201
C3_Witness ==
  /\ req.method = "POST"
  /\ Falsy(req.body.obj["id"])
  /\ resp.status = 201
  /\ \E id \in DOMAIN resources : resp.location = LocationOf(req.type, id)

\* C4: a PUT answered 200 or 201 answers 201 exactly when no row had the id
\* before; the number of rows grows by one on 201 and stays on 200; the row
\* stored carries the resourceType and id of the path.
C4_PutStatus ==
  [][(req = NoRequest /\ req'.method = "PUT" /\ resp'.status \in {200, 201})
     => /\ resp'.status = 201 <=> req'.id \notin DOMAIN resources
        /\ resp'.status = 200 <=> req'.id \in DOMAIN resources
        /\ Cardinality(DOMAIN resources')
             = Cardinality(DOMAIN resources) + (IF resp'.status = 201 THEN 1 ELSE 0)
        /\ req'.id \in DOMAIN resources'
        /\ JSONparse(resources'[req'.id])["resourceType"] = req'.type
        /\ JSONparse(resources'[req'.id])["id"] = req'.id]_vars

\* a PUT that created a resource whose body named another id
C4_Witness ==
  /\ req.method = "PUT"
  /\ resp.status = 201
  /\ ~Falsy(req.body.obj["id"])
  /\ req.body.obj["id"] # req.id
  /\ <<"id", req.id>> \in resources[req.id]

\* a row with the id exists and its JSON has the resourceType
Stored(type, id) ==
  id \in DOMAIN resources /\ <<"resourceType", type>> \in resources[id]

\* C5 as stated: GET returns the stored resource when one with the id and the
\* resourceType exists, and 404 in every other case.
C5_GetFoundOr404 ==
  req.method = "GET" =>
    IF Stored(req.type, req.id)
      THEN resp = Response(200, Undef, resources[req.id], Undef)
      ELSE resp.status = 404

\* C5 amended: a GET whose bearer token was verified returns the stored
\* resource when one with the id and the resourceType exists and 404 in
\* every other case; a GET of another type than Questionnaire or
\* QuestionnaireResponse is answered 404 for every caller.
C5_VerifiedGetFoundOr404 ==
  req.method = "GET" =>
    /\ req.type \notin allowedResourceTypes => resp.status = 404
    /\ Verified =>
         IF Stored(req.type, req.id)
           THEN resp = Response(200, Undef, resources[req.id], Undef)
           ELSE resp.status = 404

\* a verified GET answered 404 for a row of the other resourceType
C5_Witness ==
  /\ req.method = "GET"
  /\ Verified
  /\ req.type \in allowedResourceTypes
  /\ req.id \in DOMAIN resources
  /\ JSONparse(resources[req.id])["resourceType"] # req.type
  /\ resp.status = 404

C7_BadRequest ==
  [][(/\ req = NoRequest
      /\ req'.method \in {"POST", "PUT"}
      /\ req'.type \in allowedResourceTypes
      /\ Caller(req'.header).result = "auth"
      /\ allowMock \/ remoteJwks'
      /\ \/ req'.body.kind = "malformed"
         \/ req'.body.kind # "object"
         \/ req'.body.obj["resourceType"] # req'.type
         \/ /\ req'.type = "QuestionnaireResponse"
            /\ Falsy(req'.body.obj["questionnaire"]) \/ Falsy(req'.body.obj["status"]))
     => (resp'.status = 400 /\ resources' = resources)]_vars

\* a verified PUT of a response without status to an existing id, answered 400
C7_Witness ==
  /\ req.method = "PUT"
  /\ req.type = "QuestionnaireResponse"
  /\ Verified
  /\ req.body.kind = "object"
  /\ req.body.obj["resourceType"] = "QuestionnaireResponse"
  /\ ~Falsy(req.body.obj["questionnaire"])
  /\ Falsy(req.body.obj["status"])
  /\ req.id \in DOMAIN resources
  /\ resp.status = 400

(***************************************************************************)
(* Properties of the portal store (SpecPortal)                             *)
(***************************************************************************)
\* the history of a record, as a reader of the table sees it
History(table, d) == HistoryParse(table[d].history_json)

IsPrefix(h, g) == Len(h) <= Len(g) /\ SubSeq(g, 1, Len(h)) = h

\* C8: across every call, every record stays in the table and the history it
\* had before the call is a prefix of the history it has after the call: no
\* snapshot is removed, reordered or changed and the length never decreases.
C8_HistoryPrefix ==
  [][\A d \in DOMAIN disclosures :
       /\ d \in DOMAIN disclosures'
       /\ IsPrefix(History(disclosures, d), History(disclosures', d))]_vars

\* a submitDraft has appended to a history that already had a snapshot
C8_Witness ==
  /\ call.op = "submitDraft"
  /\ ~ret.null
  /\ Len(ret.history) = 2
  /\ History(disclosures, call.id) = ret.history

\* C9: submitDraft on a stored record without a draft changes nothing in the
\* table (history, last_submitted_at and updated_at included) and returns
\* that record.
C9_SubmitWithoutDraft ==
  [][(/\ call'.op = "submitDraft"
      /\ call'.id \in DOMAIN disclosures
      /\ getDisclosure(disclosures, call'.id).draft.null)
     => (/\ disclosures' = disclosures
         /\ ~ret'.null
         /\ ret' = getDisclosure(disclosures, call'.id))]_vars

\* a submitDraft has returned a stored record that has no draft
C9_Witness ==
  /\ call.op = "submitDraft"
  /\ call.id \in DOMAIN disclosures
  /\ ~ret.null
  /\ ret.draft.null
  /\ ret.history = <<>>

\* C10: a submitDraft on a record that has had a saveDraft makes the history
\* one longer; the last snapshot carries the document of the latest saveDraft
\* on the record, and its submittedAt is the record's new last_submitted_at.
C10_SaveThenSubmit ==
  [][(/\ call'.op = "submitDraft"
      /\ call'.id \in DOMAIN disclosures
      /\ lastSaved[call'.id].saved)
     => LET before == History(disclosures, call'.id)
            after == History(disclosures', call'.id)
        IN /\ Len(after) = Len(before) + 1
           /\ after[Len(after)].document = lastSaved[call'.id].document
           /\ after[Len(after)].submittedAt = disclosures'[call'.id].last_submitted_at
           /\ ret'.history = after
           /\ ret'.last_submitted_at = after[Len(after)].submittedAt]_vars

\* two submissions of one record with a different document saved before each
C10_Witness ==
  /\ call.op = "submitDraft"
  /\ call.id \in DOMAIN disclosures
  /\ lastSaved[call.id].saved
  /\ Len(ret.history) = 2
  /\ ret.history[1].document # ret.history[2].document
  /\ ret.history[2].document = lastSaved[call.id].document
  /\ ret.history[2].submittedAt = ret.last_submitted_at

\* C11: saveDraft on a stored record sets its draft document and its draft
\* saved-at time to the values given (the clock's time when no timestamp is
\* given), keeps its history and last_submitted_at, and leaves every other
\* record as it was.
C11_SaveDraftFrame ==
  [][(/\ call'.op = "saveDraft"
      /\ call'.id \in DOMAIN disclosures)
     => LET id == call'.id
            given == IF call'.timestamp = NullTime THEN now' ELSE call'.timestamp
            after == getDisclosure(disclosures', id)
        IN /\ DOMAIN disclosures' = DOMAIN disclosures
           /\ ~after.draft.null
           /\ after.draft.document = call'.document
           /\ after.draft.savedAt = given
           /\ after.history = History(disclosures, id)
           /\ after.last_submitted_at = disclosures[id].last_submitted_at
           /\ ret' = after
           /\ \A d \in DOMAIN disclosures \ {id} : disclosures'[d] = disclosures[d]]_vars

\* a saveDraft with an explicit timestamp has replaced the draft of a record
\* that has a submission, while another record holds a different draft
C11_Witness ==
  /\ call.op = "saveDraft"
  /\ call.id \in DOMAIN disclosures
  /\ call.timestamp # NullTime
  /\ call.timestamp # now
  /\ Len(ret.history) > 0
  /\ ret.history[Len(ret.history)].document # ret.draft.document
  /\ \E d \in DOMAIN disclosures \ {call.id} :
       /\ ~disclosures[d].draft_json.null
       /\ disclosures[d].draft_json # disclosures[call.id].draft_json

\* the status the listing reports for a user
StatusFor(table, u) == listUsersWithStatus(table)[u].status

\* the four cases of the status, read off the user's record
ExpectedStatus(table, u) ==
  LET row == joinedRow(table, u)
      draftHasEntry ==
        /\ ~row.draft_json.null
        /\ \E k \in {"roles", "financial", "ownerships", "gifts"} :
             DocParse(row.draft_json.text)[k] # <<>>
  IN IF Len(HistoryParse(row.history_json)) = 0
       THEN IF draftHasEntry THEN "Draft" ELSE "Not Started"
       ELSE IF row.draft_saved_at > row.last_submitted_at THEN "Updated" ELSE "Submitted"

StatusCases(table) == \A u \in Users : StatusFor(table, u) = ExpectedStatus(table, u)

ListingReportsCases ==
  call'.op = "listUsersWithStatus"
    => \A u \in Users : ret'.list[u].status = ExpectedStatus(disclosures, u)

\* the time a submitDraft step stamps on its snapshot
SubmitTime == IF call'.timestamp = NullTime THEN now' ELSE call'.timestamp

\* the step is a submitDraft that appends a snapshot
Submits ==
  /\ call'.op = "submitDraft"
  /\ call'.id \in DOMAIN disclosures
  /\ ~disclosures[call'.id].draft_json.null

\* C12 as stated: the status follows the four cases, it is 'Submitted' right
\* after every submit, and 'Submitted' turns into 'Updated' by a saveDraft only.
C12_StatusAfterAnySubmit ==
  [][/\ StatusCases(disclosures)
     /\ StatusCases(disclosures')
     /\ ListingReportsCases
     /\ Submits => StatusFor(disclosures', disclosures[call'.id].user_id) = "Submitted"
     /\ \A u \in Users :
          (StatusFor(disclosures, u) = "Submitted" /\ StatusFor(disclosures', u) = "Updated")
            => call'.op = "saveDraft"]_vars

\* C12: the status follows the four cases; it is 'Submitted' right after a
\* submit whose timestamp is not earlier than the draft's saved-at time, and
\* 'Submitted' turns into 'Updated' by a saveDraft or by a submit stamped
\* earlier than the draft's saved-at time, by nothing else.
C12_StatusByTimestamps ==
  [][/\ StatusCases(disclosures)
     /\ StatusCases(disclosures')
     /\ ListingReportsCases
     /\ (Submits /\ SubmitTime >= disclosures[call'.id].draft_saved_at)
          => StatusFor(disclosures', disclosures[call'.id].user_id) = "Submitted"
     /\ \A u \in Users :
          (StatusFor(disclosures, u) = "Submitted" /\ StatusFor(disclosures', u) = "Updated")
            => \/ call'.op = "saveDraft"
               \/ Submits /\ SubmitTime < disclosures[call'.id].draft_saved_at]_vars

\* the listing reports 'Updated' for one discloser and 'Draft' for another
C12_Witness ==
  /\ call.op = "listUsersWithStatus"
  /\ \E u, v \in Users :
       /\ ret.list[u].status = "Updated"
       /\ ret.list[v].status = "Draft"

(***************************************************************************)
(* Properties of the search route (SpecSearch)                             *)
(***************************************************************************)
\* the request in hand is a search of an allowed type by a verified caller
Searched ==
  /\ req.method = "SEARCH"
  /\ req.type \in allowedResourceTypes
  /\ req.header = Reader

\* the numerals among the values of _count and _page, with their floors
Floors ==
  [n \in {"0", "1", "2", "3", "2.7", "1.5", "-1", "-5", "200", "201", "99999"} |->
     CASE n = "0" -> 0 [] n = "1" -> 1 [] n = "2" -> 2 [] n = "3" -> 3
       [] n = "2.7" -> 2 [] n = "1.5" -> 1 [] n = "-1" -> 0 - 1 [] n = "-5" -> 0 - 5
       [] n = "200" -> 200 [] n = "201" -> 201 [] n = "99999" -> 99999]

ExpectedLimit(count) ==
  IF count \notin DOMAIN Floors THEN 50
  ELSE IF Floors[count] < 1 THEN 1
  ELSE IF Floors[count] > 200 THEN 200
  ELSE Floors[count]

ExpectedPage(page) ==
  IF page \notin DOMAIN Floors THEN 1
  ELSE IF Floors[page] < 1 THEN 1
  ELSE Floors[page]

\* C13: a search with any _count and _page is answered 200; its limit is the
\* floor of _count clamped into 1..200, and 50 when _count is absent or not
\* a number; its page is the floor of _page, and 1 when _page is absent, not
\* a number or below 1.
C13_PaginationClamped ==
  Searched =>
    /\ resp.status = 200
    /\ resp.result.limit = ExpectedLimit(req.params.count)
    /\ resp.result.page = ExpectedPage(req.params.page)
    /\ resp.result.limit \in 1..200
    /\ resp.result.page >= 1
    /\ req.params.count = "0" => resp.result.limit = 1
    /\ req.params.count = "99999" => resp.result.limit = 200

\* a search with _count=0 and a fractional _page has been answered
C13_Witness ==
  /\ Searched
  /\ req.params.count = "0"
  /\ req.params.page = "1.5"
  /\ resp.status = 200
  /\ resp.result.limit = 1
  /\ resp.result.page = 1

\* the ids of the stored resources the filter of the request selects
Selected == {id \in DOMAIN resources :
               whereMatches(id, JSONparse(resources[id]), req.type, req.params)}

\* the ids of the resources on page p of the request's search
PageIds(p) ==
  LET r == search(resources, req.type, [req.params EXCEPT !.page = ToString(p)])
  IN [k \in 1..Len(r.resources) |-> r.resources[k]["id"]]

\* the number of pages that hold a resource
LastPage == (resp.result.total + resp.result.limit - 1) \div resp.result.limit

\* C14: the total of a search is the number of stored resources its filter
\* selects, whatever _count and _page are; page p holds
\* min(limit, max(0, total - (p-1)*limit)) resources, each selected by the
\* filter; pages 1..ceil(total/limit) of the same table hold every selected
\* resource exactly once.
C14_Paging ==
  (Searched /\ resp.status = 200) =>
    LET total == resp.bundle.total
        limit == resp.result.limit
        page == resp.result.page
        entry == resp.bundle.entry
    IN /\ total = Cardinality(Selected)
       /\ total = search(resources, req.type,
                         [req.params EXCEPT !.count = Undef, !.page = Undef]).total
       /\ Len(entry) = Min(limit, Max(0, total - (page - 1) * limit))
       /\ \A k \in 1..Len(entry) :
            /\ entry[k]["id"] \in Selected
            /\ entry[k] = JSONparse(resources[entry[k]["id"]])
       /\ LET pages == [p \in 1..LastPage |-> PageIds(p)]
          IN \A id \in Selected :
               Cardinality(UNION {{<<p, k>> : k \in {j \in 1..Len(pages[p]) : pages[p][j] = id}} :
                                    p \in 1..LastPage}) = 1

\* the second page of a search with limit 2 over three selected resources
C14_Witness ==
  /\ Searched
  /\ resp.status = 200
  /\ resp.result.limit = 2
  /\ resp.result.page = 2
  /\ resp.bundle.total = 3
  /\ Len(resp.bundle.entry) = 1

\* the filter parameters search reads for a resource type
FilterFields(type) ==
  IF type = "Questionnaire" THEN {"status", "url", "version", "id"}
  ELSE {"status", "subjectIdentifier", "questionnaire", "authored"}

\* the query string without the parameters search does not read for the type
Recognized(type, params) ==
  [f \in DOMAIN params |->
     IF f \in FilterFields(type) \cup {"count", "page"} THEN params[f] ELSE NoParams[f]]

\* the ids a query string selects among the stored resources of a type
SelectedBy(type, params) ==
  {id \in DOMAIN resources : whereMatches(id, JSONparse(resources[id]), type, params)}

OfType(type) == {id \in DOMAIN resources : JSONparse(resources[id])["resourceType"] = type}

\* C15: a search is answered 200 whatever parameters it carries; its result is
\* that of the query string cut down to the parameters recognized for the
\* type; the resources it selects are those every recognized parameter
\* selects on its own; without a recognized filter parameter it selects all
\* resources of the type and no other.
C15_RecognizedParams ==
  Searched =>
    LET type == req.type
        params == req.params
    IN /\ resp.status = 200
       /\ resp.result = search(resources, type, Recognized(type, params))
       /\ SelectedBy(type, params) \subseteq OfType(type)
       /\ \A id \in OfType(type) :
            id \in SelectedBy(type, params)
              <=> \A f \in FilterFields(type) :
                    id \in SelectedBy(type, [NoParams EXCEPT ![f] = params[f]])
       /\ (\A f \in FilterFields(type) : params[f] = NoParams[f])
            => /\ resp.bundle.total = Cardinality(OfType(type))
               /\ \A k \in 1..Len(resp.bundle.entry) :
                    resp.bundle.entry[k]["resourceType"] = type

\* a response search that carries url, which only a Questionnaire search reads
C15_Witness ==
  /\ Searched
  /\ req.type = "QuestionnaireResponse"
  /\ req.params.url = COI_CANONICAL_URL
  /\ req.params.questionnaire = COI_CANONICAL_URL \o "|" \o COI_VERSION
  /\ resp.status = 200
  /\ resp.bundle.total = 1
  /\ Cardinality(OfType("QuestionnaireResponse")) > 1

\* the non-empty values of subject:identifier in the request
SubjectFilters ==
  {req.params.subjectIdentifier[k] : k \in 1..Len(req.params.subjectIdentifier)} \ {EmptyStr}

\* a bare value, or a system and a value around the first bar
PairOrValue(v) == IndexOf(v, "|") = 0 \/ (IndexOf(v, "|") > 1 /\ IndexOf(v, "|") < Len(v))

\* the stored subject identifier is the one the value names
NamesSubject(v, row) ==
  LET bar == IndexOf(v, "|")
  IN IF bar = 0
       THEN row["subject.identifier.value"] = v
       ELSE /\ row["subject.identifier.system"] = SubSeq(v, 1, bar - 1)
            /\ row["subject.identifier.value"] = SubSeq(v, bar + 1, Len(v))

StartsWith(text, prefix) ==
  Len(prefix) <= Len(text) /\ SubSeq(text, 1, Len(prefix)) = prefix

\* the stored questionnaire is the canonical the parameter names: the same
\* string for a parameter with a version, otherwise the URL alone or the URL
\* followed by a bar and a version
NamesCanonical(q, row) ==
  IF Includes(q, "|")
    THEN row["questionnaire"] = q
    ELSE \/ row["questionnaire"] = q
         \/ row["questionnaire"] # Undef /\ StartsWith(row["questionnaire"], q \o "|")

\* C17: a response search with a questionnaire parameter selects exactly the
\* responses the other filters select whose questionnaire is equal to the
\* parameter when the parameter contains a bar, and is the parameter's URL,
\* alone or followed by a bar and any version, when it contains none.
C17_QuestionnaireCanonical ==
  (/\ Searched
   /\ req.type = "QuestionnaireResponse"
   /\ ~Falsy(req.params.questionnaire))
  => LET others == SelectedBy(req.type, [req.params EXCEPT !.questionnaire = Undef])
     IN SelectedBy(req.type, req.params)
          = {id \in others : NamesCanonical(req.params.questionnaire, JSONparse(resources[id]))}

\* the non-empty values of authored in the request
AuthoredFilters ==
  {req.params.authored[k] : k \in 1..Len(req.params.authored)} \ {EmptyStr}

\* the dates that occur, in calendar order
DateRank ==
  [day \in {"2025-03-01", "2025-06-01", "2025-09-01"} |->
     CASE day = "2025-03-01" -> 1 [] day = "2025-06-01" -> 2 [] day = "2025-09-01" -> 3]

\* the comparison one authored value asks for, on the stored authored date
AuthoredHolds(raw, authored) ==
  LET prefix == SubSeq(raw, 1, 2)
      day == SubSeq(raw, 3, Len(raw))
  IN /\ authored # Undef
     /\ CASE prefix = "ge" -> DateRank[authored] >= DateRank[day]
          [] prefix = "gt" -> DateRank[authored] > DateRank[day]
          [] prefix = "le" -> DateRank[authored] <= DateRank[day]
          [] prefix = "lt" -> DateRank[authored] < DateRank[day]
          [] OTHER -> authored = raw

\* C18: a response search with non-empty authored values selects exactly the
\* responses the other filters select whose authored date satisfies every
\* value: >=, >, <=, < for the prefixes ge, gt, le, lt, equality otherwise.
C18_AuthoredComparisons ==
  (/\ Searched
   /\ req.type = "QuestionnaireResponse"
   /\ AuthoredFilters # {})
  => LET others == SelectedBy(req.type, [req.params EXCEPT !.authored = <<>>])
         within == {id \in others :
                      \A raw \in AuthoredFilters :
                        AuthoredHolds(raw, JSONparse(resources[id])["authored"])}
     IN /\ resp.status = 200
        /\ SelectedBy(req.type, req.params) = within
        /\ resp.bundle.total = Cardinality(within)
        /\ {resp.bundle.entry[k]["id"] : k \in 1..Len(resp.bundle.entry)} = within

\* authored=geX with authored=leY over responses authored at X, at Y and
\* after Y selects the first two
C18_Witness ==
  /\ Searched
  /\ req.type = "QuestionnaireResponse"
  /\ req.params.authored = <<"ge2025-03-01", "le2025-06-01">>
  /\ req.params.version = Undef
  /\ DOMAIN resources = {"r3", "r4", "r6"}
  /\ resp.bundle.total = 2
  /\ {resp.bundle.entry[k]["id"] : k \in 1..Len(resp.bundle.entry)} = {"r3", "r4"}

(***************************************************************************)
(* Properties of the seeded questionnaire (SpecServer, Spec)               *)
(***************************************************************************)
\* the row under id is the questionnaire as seedCanonicalQuestionnaire stored it
Seeded(table, id) ==
  table[id] = JSONstringify([canonicalQuestionnaire EXCEPT !["id"] = id])

\* C19: in every state the server reaches, across requests and restarts, the
\* search of Questionnaire by the canonical url and version has total 1.
C19_CanonicalUnique ==
  search(resources, "Questionnaire", CanonicalQuery).total = 1

\* C20: no request changes or replaces a row that holds the seeded
\* questionnaire.
C20_SeededImmutable ==
  [][\A id \in DOMAIN resources :
       Seeded(resources, id) => (id \in DOMAIN resources' /\ Seeded(resources', id))]_vars

(***************************************************************************)
(* Properties of writes to stored resources (Spec)                         *)
(***************************************************************************)
\* the step handles a POST
Posts == req = NoRequest /\ req'.method = "POST"

\* C23: a POST never changes a stored resource, and a POST whose body carries
\* the id of a stored resource is not answered 201.
C23_CreateNeverOverwrites ==
  [][Posts =>
       /\ \A id \in DOMAIN resources :
            id \in DOMAIN resources' /\ resources'[id] = resources[id]
       /\ req'.body.obj["id"] \in DOMAIN resources => resp'.status # 201]_vars

\* a verified POST of a valid body with the id of a stored resource, which the
\* INSERT refused
C23_Witness ==
  /\ req.method = "POST"
  /\ KeysAvailable
  /\ Caller(req.header).result = "auth"
  /\ ValidBody(req.type, req.body)
  /\ req.body.obj["id"] \in DOMAIN resources
  /\ resp.status = 500

\* the step handles a PUT
Puts == req = NoRequest /\ req'.method = "PUT"

\* the row is a QuestionnaireResponse whose subject identifier is not the
\* identity auth
OwnedByAnother(row, auth) ==
  /\ row["resourceType"] = "QuestionnaireResponse"
  /\ \/ row["subject.identifier.system"] # auth.subjectSystem
     \/ row["subject.identifier.value"] # auth.subjectValue

\* C25: a PUT never changes a stored QuestionnaireResponse whose subject
\* identifier is the identity of a caller other than the one the request is
\* authenticated as.
C25_OwnerOnlyWrites ==
  [][Puts =>
       \A id \in DOMAIN resources :
         OwnedByAnother(JSONparse(resources[id]), Caller(req'.header).auth)
           => id \in DOMAIN resources' /\ resources'[id] = resources[id]]_vars

\* C26: a PUT to one resource type leaves what GET returns for every other
\* resource type and every id as it was.
C26_PutKeepsOtherTypes ==
  [][Puts =>
       \A type \in allowedResourceTypes \ {req'.type}, id \in Ids :
         get(resources', type, id) = get(resources, type, id)]_vars

(***************************************************************************)
(* Properties of repeated submissions (SpecPortal)                         *)
(***************************************************************************)
\* C24: submitDraft leaves the draft of the record as it was, and a submit of
\* a record whose latest saveDraft has been submitted already (no saveDraft
\* between the two submits) appends one more snapshot: the history then ends
\* with two snapshots that have distinct ids and equal documents.
C24_RepeatedSubmit ==
  [][(/\ call'.op = "submitDraft"
      /\ call'.id \in DOMAIN disclosures)
     => LET before == History(disclosures, call'.id)
            after == History(disclosures', call'.id)
            n == Len(after)
        IN /\ getDisclosure(disclosures', call'.id).draft
                = getDisclosure(disclosures, call'.id).draft
           /\ lastSaved[call'.id].submitted =>
                /\ ~getDisclosure(disclosures', call'.id).draft.null
                /\ n = Len(before) + 1
                /\ n >= 2
                /\ after[n].id # after[n - 1].id
                /\ after[n].document = after[n - 1].document
                /\ after[n].document = getDisclosure(disclosures', call'.id).draft.document]_vars

\* the second of two submits of one saved draft has returned
C24_Witness ==
  /\ call.op = "submitDraft"
  /\ call.id \in DOMAIN disclosures
  /\ lastSaved[call.id].saved
  /\ lastSaved[call.id].submitted
  /\ Len(ret.history) = 2
  /\ ret.history[1].id # ret.history[2].id
  /\ ret.history[1].document = ret.history[2].document
  /\ ret.history[2].document = lastSaved[call.id].document
  /\ ~ret.draft.null

(***************************************************************************)
(* Properties of the published output (SpecPortal)                         *)
(***************************************************************************)
\* everything the portal publishes about user u
Published(table, u) ==
  [profile |-> listPublicProfiles(table)[u],
   disclosure |-> publicDisclosure(table, u),
   row |-> buildPublicRows(table)[u]]

\* what is published about a discloser nothing is known of
NothingPublished == Published(<<>>, 1)

\* C22: what is published about a discloser is determined by the submitted
\* history: a discloser whose history is empty has no public row and no
\* published content, and a saveDraft changes no published output.
C22_PublishedFromHistory ==
  [][/\ \A u \in Users :
          Len(getDisclosureByUser(disclosures', u).history) = 0
            => Published(disclosures', u) = NothingPublished
     /\ call'.op = "saveDraft" =>
          \A u \in Users : Published(disclosures', u) = Published(disclosures, u)]_vars

(***************************************************************************)
(* Properties of the key-set cache (SpecAuth)                              *)
(***************************************************************************)
\* call c begins to await the key set in this step
Begins(c) == verifying[c].pc = "idle" /\ verifying'[c].pc = "awaiting"

\* C21: a discovery fetch begins only while no key set is cached and no
\* resolution is in flight: a call that starts during a resolution awaits
\* that resolution, a call that starts after a resolution has succeeded uses
\* the cached key set, and the cached key set is never dropped, so a
\* successful resolution is the last one.
C21_ResolvedOnce ==
  [][/\ remoteJwks => remoteJwks' /\ fetches' = fetches
     /\ jwksInitPromise = "pending" => fetches' = fetches
     /\ \A c \in Calls :
          (verifying'[c].pc = "done" /\ verifying[c].pc = "awaiting" /\ remoteJwks)
            => verifying'[c].result = Caller(verifying[c].header).result]_vars

\* two calls that overlapped one resolution have both been verified, with
\* one discovery fetch
C21_Witness ==
  /\ ~allowMock
  /\ remoteJwks
  /\ fetches = 1
  /\ \A c \in {1, 2} : verifying[c].pc = "done" /\ verifying[c].result = "auth"

\* C30: a call with a bearer token that starts while no key set is cached and
\* no resolution is in flight, in particular after a resolution has failed,
\* begins a discovery fetch.
C30_FailureNotPermanent ==
  [][\A c \in Calls :
       (Begins(c) /\ ~remoteJwks /\ jwksInitPromise # "pending")
         => fetches' = fetches + 1]_vars

(***************************************************************************)
(* Properties of the portal sessions (SpecSession)                         *)
(***************************************************************************)
\* sid names a live session at time t: created by a login, not removed by a
\* logout, and expiring later than t
Live(sid, t) ==
  /\ sid \in DOMAIN sessions
  /\ sid \notin loggedOut
  /\ sessions[sid].expires_at > t

\* C28: a request to a protected route is authenticated exactly when its sid
\* cookie names a live session at the time of the request; otherwise a user
\* route answers 401 and an admin route 403.
C28_LiveSessionOnly ==
  /\ served.route \in UserRoutes =>
       /\ served.status = 200 <=> Live(served.sid, served.at)
       /\ served.status # 200 => served.status = 401
  /\ served.route \in AdminRoutes =>
       /\ served.status = 200 => Live(served.sid, served.at)
       /\ served.status # 200 => served.status = 403

(***************************************************************************)
(* Properties of the authorization redirect (SpecRedirect)                 *)
(***************************************************************************)
\* C29: a handleRedirect call goes on to the token exchange only when the
\* state of the redirect is the stored PKCE state, and a call contacts the
\* token endpoint only for a code that no call has redeemed, whether that
\* call has completed or is still in progress.
C29_ExchangeOnce ==
  [][\A c \in Calls :
       /\ (redirecting[c].pc = "idle" /\ redirecting'[c].pc = "metadata")
            => storage.pkce # Null /\ storage.pkce = query.state
       /\ (redirecting[c].pc = "metadata" /\ redirecting'[c].pc = "fetching")
            => redirecting[c].code \notin tokenEndpoint.redeemed]_vars

\* C27: once submit has stored a QuestionnaireResponse with status
\* 'completed' under an id, no saveDraft of the session sends a PUT with
\* status 'in-progress' to that id: a completed submission is never turned
\* back into a draft.
C27_NoDraftOverCompleted == [][\A c \in Saves : (saving[c].pc # "sent" /\ saving'[c].pc = "sent") => (saving'[c].responseId = NoResponseId \/ responses[saving'[c].responseId].status # "completed")]_vars

====
